---- MODULE Spec2Model ----
(***************************************************************************)
(* Claims Decision Engine of the AutoLife insurance agent.                 *)
(*                                                                         *)
(* Representation.  A Python str is a sequence of characters, each a       *)
(* one-character string, so that lower(), slicing, the `in` operator and   *)
(* the regular expressions are computed on the characters.  A literal of   *)
(* the source that is only concatenated and stored (a log prefix, the      *)
(* system prompt) is kept as one element of the sequence.  Optional[T] is  *)
(* a set with at most one element ({} is None).  Money is counted in       *)
(* cents and confidence in hundredths, so 0.8 is 80 and 1.0 is 100.        *)
(***************************************************************************)
EXTENDS Integers, Sequences, FiniteSets, TLC

VARIABLES
    policies,             \* ClaimsTools.policies: the policy catalog
    agent_max_iterations, \* settings.agent_max_iterations
    now,                  \* the wall clock read by datetime.now()
    pc,                   \* position of each process_claim request
    claim_text,           \* argument of each process_claim request
    claim,                \* the Claim object of each request
    chat_history,         \* the ChatHistory object of each request
    iteration,            \* local `iteration` of each request
    max_iterations,       \* local `max_iterations` of each request
    responses,            \* what the collaborator answered to each request, in order
    tool_result,          \* last tool result handed to the collaborator, per request
    p_content,            \* input of the recommendation parser under SpecParse
    p_result,             \* its outcome under SpecParse
    t_call,               \* tool function and arguments called under SpecTools
    t_out                 \* its outcome under SpecTools

vars == <<policies, agent_max_iterations, now, pc, claim_text, claim, chat_history,
          iteration, max_iterations, responses, tool_result, p_content, p_result,
          t_call, t_out>>

orch_vars == <<policies, agent_max_iterations, now, pc, claim_text, claim, chat_history,
               iteration, max_iterations, responses, tool_result>>

parse_vars == <<p_content, p_result>>

tool_vars == <<t_call, t_out>>

\* no tool function is being called
NoCall == [tool |-> "none"]

----------------------------------------------------------------------------
(* Bounds of the model                                                     *)

\* largest value of settings.agent_max_iterations explored
MaxIterationsBound == 3

\* largest value of the clock
MaxNow == 1

\* largest number of words of a parser input under SpecParse
MaxWords == 2

----------------------------------------------------------------------------
(* str primitives                                                          *)

UpperLetters ==
    <<"A","B","C","D","E","F","G","H","I","J","K","L","M",
      "N","O","P","Q","R","S","T","U","V","W","X","Y","Z">>

LowerLetters ==
    <<"a","b","c","d","e","f","g","h","i","j","k","l","m",
      "n","o","p","q","r","s","t","u","v","w","x","y","z">>

DigitChars == <<"0","1","2","3","4","5","6","7","8","9">>

\* the lower-case letter of each upper-case letter
LowerOf == [c \in {UpperLetters[i] : i \in 1..26} |->
              LowerLetters[CHOOSE i \in 1..26 : UpperLetters[i] = c]]

\* str.lower() on one character
LowerChar(c) == IF c \in DOMAIN LowerOf THEN LowerOf[c] ELSE c

\* str.lower()
Lower(s) == [i \in 1..Len(s) |-> LowerChar(s[i])]

\* Python `k in s`
Contains(s, k) ==
    \E i \in 1..(Len(s) - Len(k) + 1) : \A m \in 1..Len(k) : s[i + m - 1] = k[m]

\* Python s[:n]
Take(s, n) == SubSeq(s, 1, IF Len(s) < n THEN Len(s) ELSE n)

DigitValue == [c \in {DigitChars[i] : i \in 1..10} |->
                 (CHOOSE i \in 1..10 : DigitChars[i] = c) - 1]

\* regular expression class \d
IsDigit(c) == c \in DOMAIN DigitValue

\* regular expression class \s
IsSpace(c) == c \in {" ", "\t", "\n", "\r", "\f"}

DigitVal(c) == DigitValue[c]

\* s starts with k at index i (1-based)
StartsAt(s, i, k) ==
    /\ i >= 1
    /\ i + Len(k) - 1 <= Len(s)
    /\ \A m \in 1..Len(k) : s[i + m - 1] = k[m]

\* first index >= i of s that does not hold a character of class \s
RECURSIVE SkipSpaces(_, _)
SkipSpaces(s, i) ==
    IF i <= Len(s) /\ IsSpace(s[i]) THEN SkipSpaces(s, i + 1) ELSE i

\* first index >= i of s that does not hold a digit
RECURSIVE SkipDigits(_, _)
SkipDigits(s, i) ==
    IF i <= Len(s) /\ IsDigit(s[i]) THEN SkipDigits(s, i + 1) ELSE i

\* int() of the digits s[i..j-1]
RECURSIVE IntOf(_, _, _)
IntOf(s, i, j) ==
    IF j <= i THEN 0 ELSE IntOf(s, i, j - 1) * 10 + DigitVal(s[j - 1])

\* max() of a non-empty list of numbers
MaxOf(xs) == CHOOSE m \in {xs[i] : i \in 1..Len(xs)} : \A i \in 1..Len(xs) : xs[i] <= m

----------------------------------------------------------------------------
(* ClaimStatus, ClaimRecommendation  (src/models/claim.py)                 *)

ClaimStatus == {"pending", "approved", "denied", "needs_review"}

\* ClaimRecommendation(...): the object built from the keyword arguments;
\* processed_at is filled by its default_factory datetime.now
ClaimRecommendation(status, approved_amount, reasoning, confidence, next_steps, t) ==
    [status          |-> status,
     approved_amount |-> approved_amount,
     reasoning       |-> reasoning,
     confidence      |-> confidence,
     next_steps      |-> next_steps,
     processed_at    |-> t]

\* the Field constraints pydantic validates on construction:
\* approved_amount ge=0, confidence ge=0 le=1; a violation raises ValidationError
RecommendationValid(rec) ==
    /\ rec.status \in ClaimStatus
    /\ rec.approved_amount >= 0
    /\ rec.confidence >= 0
    /\ rec.confidence <= 100

----------------------------------------------------------------------------
(* ClaimsProcessingAgent._has_final_decision                               *)

decision_keywords ==
    << <<"f","i","n","a","l"," ","r","e","c","o","m","m","e","n","d","a","t","i","o","n">>,
       <<"m","y"," ","r","e","c","o","m","m","e","n","d","a","t","i","o","n">>,
       <<"d","e","c","i","s","i","o","n",":">>,
       <<"a","p","p","r","o","v","e","d"," ","f","o","r">>,
       <<"d","e","n","y"," ","t","h","i","s"," ","c","l","a","i","m">>,
       <<"d","e","n","i","e","d">>,
       <<"n","e","e","d","s"," ","r","e","v","i","e","w">>,
       <<"r","e","q","u","i","r","e","s"," ","m","a","n","u","a","l"," ","r","e","v","i","e","w">> >>

\* any(keyword in content.lower() for keyword in decision_keywords)
_has_final_decision(content) ==
    LET content_lower == Lower(content)
    IN  \E j \in 1..Len(decision_keywords) : Contains(content_lower, decision_keywords[j])

----------------------------------------------------------------------------
(* ClaimsProcessingAgent._parse_recommendation                             *)

denial_words == << <<"d","e","n","i","e","d">>, <<"d","e","n","y">>, <<"r","e","j","e","c","t">> >>

approval_words == << <<"a","p","p","r","o","v","e","d">>, <<"a","p","p","r","o","v","e">> >>

ContainsAny(s, ws) == \E j \in 1..Len(ws) : Contains(s, ws[j])

\* the status test as it would be with the approval branch tested first
StatusOf_approval_first(content) ==
    LET content_lower == Lower(content)
    IN  IF ContainsAny(content_lower, approval_words) THEN "approved"
        ELSE IF ContainsAny(content_lower, denial_words) THEN "denied"
        ELSE "needs_review"

\* lines 233-239: denial vocabulary first, then approval, else needs_review
StatusOf(content) ==
    LET content_lower == Lower(content)
    IN  IF ContainsAny(content_lower, denial_words) THEN "denied"
        ELSE IF ContainsAny(content_lower, approval_words) THEN "approved"
        ELSE "needs_review"

\* The number token \d{1,3}(?:,\d{3})*(?:\.\d{2})? read at index i with nd leading
\* digits, ng groups ",ddd" and (dec = 1) a fraction ".dd".
NumEnd(i, nd, ng, dec) == i + nd + 4 * ng + 3 * dec

NumShape(s, i, nd, ng, dec) ==
    /\ NumEnd(i, nd, ng, dec) - 1 <= Len(s)
    /\ \A k \in 0..(nd - 1) : IsDigit(s[i + k])
    /\ \A g \in 0..(ng - 1) :
          /\ s[i + nd + 4 * g] = ","
          /\ \A k \in 1..3 : IsDigit(s[i + nd + 4 * g + k])
    /\ dec = 1 =>
          /\ s[i + nd + 4 * ng] = "."
          /\ \A k \in 1..2 : IsDigit(s[i + nd + 4 * ng + k])

NumCandidates(s, i) ==
    IF i > Len(s) \/ ~IsDigit(s[i]) THEN {}
    ELSE {c \in (1..3) \X (0..((Len(s) - i) \div 4)) \X (0..1) :
             NumShape(s, i, c[1], c[2], c[3])}

\* the order in which the backtracking matcher tries the readings: greedy first
TriedBefore(c, d) ==
    \/ c[1] > d[1]
    \/ c[1] = d[1] /\ c[2] > d[2]
    \/ c[1] = d[1] /\ c[2] = d[2] /\ c[3] >= d[3]

\* float(m.replace(',', '')) of the token, in cents
RECURSIVE GroupsVal(_, _, _, _)
GroupsVal(s, j, ng, acc) ==
    IF ng = 0 THEN acc
    ELSE GroupsVal(s, j + 4, ng - 1, acc * 1000 + IntOf(s, j + 1, j + 4))

NumValue(s, i, c) ==
    LET whole == GroupsVal(s, i + c[1], c[2], IntOf(s, i, i + c[1]))
        frac  == IF c[3] = 1
                 THEN IntOf(s, i + c[1] + 4 * c[2] + 1, i + c[1] + 4 * c[2] + 3)
                 ELSE 0
    IN  whole * 100 + frac

dollars_word == <<"d","o","l","l","a","r","s">>

\* r'\$\s*(\d{1,3}(?:,\d{3})*(?:\.\d{2})?)' matched at index i:
\* <<value, index after the match>>, or <<>> when it does not match there
DollarPrefixedAt(s, i) ==
    IF s[i] # "$" THEN <<>>
    ELSE LET j  == SkipSpaces(s, i + 1)
             ok == NumCandidates(s, j)
         IN  IF ok = {} THEN <<>>
             ELSE LET c == CHOOSE c \in ok : \A d \in ok : TriedBefore(c, d)
                  IN  <<NumValue(s, j, c), NumEnd(j, c[1], c[2], c[3])>>

\* r'(\d{1,3}(?:,\d{3})*(?:\.\d{2})?)\s*dollars' matched at index i
DollarsSuffixedAt(s, i) ==
    LET ok == {c \in NumCandidates(s, i) :
                 StartsAt(s, SkipSpaces(s, NumEnd(i, c[1], c[2], c[3])), dollars_word)}
    IN  IF ok = {} THEN <<>>
        ELSE LET c == CHOOSE c \in ok : \A d \in ok : TriedBefore(c, d)
             IN  <<NumValue(s, i, c),
                   SkipSpaces(s, NumEnd(i, c[1], c[2], c[3])) + Len(dollars_word)>>

AmountMatchAt(s, i, p) ==
    IF p = 1 THEN DollarPrefixedAt(s, i) ELSE DollarsSuffixedAt(s, i)

\* re.findall(amount_patterns[p], content): the values of the successive
\* non-overlapping matches, left to right
RECURSIVE FindAllAmounts(_, _, _)
FindAllAmounts(s, i, p) ==
    IF i > Len(s) THEN <<>>
    ELSE LET m == AmountMatchAt(s, i, p)
         IN  IF m = <<>> THEN FindAllAmounts(s, i + 1, p)
             ELSE <<m[1]>> \o FindAllAmounts(s, m[2], p)

\* lines 247-254: the first pattern that matches anywhere decides; its largest value
ApprovedAmountOf(content) ==
    LET prefixed == FindAllAmounts(content, 1, 1)
        suffixed == FindAllAmounts(content, 1, 2)
    IN  IF prefixed # <<>> THEN MaxOf(prefixed)
        ELSE IF suffixed # <<>> THEN MaxOf(suffixed)
        ELSE 0

confidence_word == <<"c","o","n","f","i","d","e","n","c","e">>

RECURSIVE SkipColonSpaces(_, _)
SkipColonSpaces(s, i) ==
    IF i <= Len(s) /\ (s[i] = ":" \/ IsSpace(s[i])) THEN SkipColonSpaces(s, i + 1) ELSE i

\* r'confidence[:\s]+(\d+)%' matches at index i of s
ConfidenceMatchesAt(s, i) ==
    /\ StartsAt(s, i, confidence_word)
    /\ LET k == SkipColonSpaces(s, i + Len(confidence_word))
           m == SkipDigits(s, k)
       IN  /\ k > i + Len(confidence_word)
           /\ m > k
           /\ m <= Len(s)
           /\ s[m] = "%"

\* lines 257-260: default 0.8, else float(group(1)) / 100 of the first match
ConfidenceOf(content) ==
    LET s    == Lower(content)
        hits == {i \in 1..Len(s) : ConfidenceMatchesAt(s, i)}
    IN  IF hits = {} THEN 80
        ELSE LET i == CHOOSE i \in hits : \A j \in hits : i <= j
                 k == SkipColonSpaces(s, i + Len(confidence_word))
             IN  IntOf(s, k, SkipDigits(s, k))

\* line 263
ReasoningLimit == 500

ReasoningOf(content) ==
    IF Len(content) > ReasoningLimit THEN Take(content, ReasoningLimit) ELSE content

\* lines 266-283
NextStepsOf(status) ==
    IF status = "approved"
    THEN <<"Issue payment to claimant", "Send approval notification", "Close claim">>
    ELSE IF status = "denied"
    THEN <<"Send denial letter with explanation",
           "Provide appeals process information", "Close claim">>
    ELSE <<"Assign to claims adjuster for review",
           "Request additional documentation", "Schedule follow-up investigation">>

\* the keyword arguments handed to ClaimRecommendation at lines 285-291
_parse_recommendation(content, t) ==
    LET status == StatusOf(content)
    IN  ClaimRecommendation(status, ApprovedAmountOf(content), ReasoningOf(content),
                            ConfidenceOf(content), NextStepsOf(status), t)

\* the largest claim amount ClaimInformation accepts, 10_000_000 dollars in cents
MaxClaimAmount == 1000000000

\* ClaimInformation.validate_amount on an amount in cents: the validated value,
\* or nothing when it raises ValueError (round(v, 2) leaves a whole number of
\* cents as it is)
validate_amount(v) ==
    IF v <= 0 THEN {}
    ELSE IF v > MaxClaimAmount THEN {}
    ELSE {v}

----------------------------------------------------------------------------
(* Claim  (src/models/claim.py)                                            *)

\* datetime.now().strftime("%Y-%m-%d %H:%M:%S"), and isoformat(): the text of a time
strftime(t) == ToString(t)

\* Claim(raw_claim_text=...): every optional field None, an empty log
Claim(raw_claim_text) ==
    [raw_claim_text   |-> raw_claim_text,
     information      |-> {},
     coverage_check   |-> {},
     fraud_assessment |-> {},
     recommendation   |-> {},
     processing_log   |-> <<>>]

\* the entry f"[{timestamp}] {message}"
LogEntry(message, t) == <<"[", strftime(t), "] ">> \o message

\* add_log as it would be with insert(0, ...) in place of append
add_log_prepend(c, message, t) ==
    [c EXCEPT !.processing_log = <<LogEntry(message, t)>> \o @]

\* Claim.add_log, called at time t
add_log(c, message, t) ==
    [c EXCEPT !.processing_log = Append(@, LogEntry(message, t))]

\* format(x, ",.2f") of an amount of x cents
RECURSIVE Grouped(_)
Grouped(n) ==
    IF n < 1000
    THEN IF n < 10 THEN <<DigitChars[n + 1]>>
         ELSE IF n < 100 THEN <<DigitChars[(n \div 10) + 1], DigitChars[(n % 10) + 1]>>
         ELSE <<DigitChars[(n \div 100) + 1], DigitChars[((n \div 10) % 10) + 1],
                DigitChars[(n % 10) + 1]>>
    ELSE Grouped(n \div 1000) \o
         <<",", DigitChars[((n % 1000) \div 100) + 1],
           DigitChars[((n \div 10) % 10) + 1], DigitChars[(n % 10) + 1]>>

FormatMoney(x) ==
    Grouped(x \div 100) \o <<".", DigitChars[((x \div 10) % 10) + 1], DigitChars[(x % 10) + 1]>>

----------------------------------------------------------------------------
(* Policy, Coverage  (src/models/policy.py) and the catalog                *)

PolicyStatus == {"active", "expired", "suspended", "cancelled"}

POL_AUTO_001 == <<"P","O","L","-","A","U","T","O","-","0","0","1">>
POL_AUTO_005 == <<"P","O","L","-","A","U","T","O","-","0","0","5">>
POL_HOME_002 == <<"P","O","L","-","H","O","M","E","-","0","0","2">>
POL_FAKE_999 == <<"P","O","L","-","F","A","K","E","-","9","9","9">>

\* ClaimsTools._load_policies: the list of Policy objects read at construction.
\* Dates are clock values.
LoadedPolicies ==
    << [policy_number |-> POL_AUTO_001, policy_type |-> "auto", status |-> "active",
        effective_date |-> 0, expiry_date |-> MaxNow + 1,
        coverages |-> << [coverage_type |-> "auto_collision",
                          coverage_limit |-> 5000000, deductible |-> 50000] >>],
       [policy_number |-> POL_HOME_002, policy_type |-> "home", status |-> "active",
        effective_date |-> 0, expiry_date |-> 0,
        coverages |-> << [coverage_type |-> "home_property",
                          coverage_limit |-> 1000000, deductible |-> 100000] >>],
       [policy_number |-> POL_AUTO_005, policy_type |-> "auto", status |-> "expired",
        effective_date |-> 0, expiry_date |-> 0,
        coverages |-> << [coverage_type |-> "auto_collision",
                          coverage_limit |-> 5000000, deductible |-> 50000] >>] >>

\* _get_policy answering the first policy of the catalog when no number matches
_get_policy_or_first(catalog, policy_number) ==
    LET hits == {i \in 1..Len(catalog) : catalog[i].policy_number = policy_number}
    IN  IF hits = {} THEN {catalog[1]}
        ELSE {catalog[CHOOSE i \in hits : \A j \in hits : i <= j]}

\* ClaimsTools._get_policy: the first policy with that number, else None
_get_policy(catalog, policy_number) ==
    LET hits == {i \in 1..Len(catalog) : catalog[i].policy_number = policy_number}
    IN  IF hits = {} THEN {}
        ELSE {catalog[CHOOSE i \in hits : \A j \in hits : i <= j]}

\* is_active looking at the status only
is_active_status_only(policy, t) == policy.status = "active"

\* Policy.is_active at time t
is_active(policy, t) ==
    /\ policy.status = "active"
    /\ policy.effective_date <= t
    /\ t <= policy.expiry_date

\* Policy.get_coverage
get_coverage(policy, coverage_type) ==
    LET hits == {i \in 1..Len(policy.coverages) :
                    policy.coverages[i].coverage_type = coverage_type}
    IN  IF hits = {} THEN {}
        ELSE {policy.coverages[CHOOSE i \in hits : \A j \in hits : i <= j]}

\* coverage_map with home_property as the default
coverage_map_default_home(claim_type) ==
    IF claim_type = "auto" THEN "auto_collision"
    ELSE IF claim_type = "home" THEN "home_property"
    ELSE IF claim_type = "health" THEN "health_emergency"
    ELSE "home_property"

\* coverage_map.get(claim_type, CoverageType.AUTO_COLLISION)
coverage_map(claim_type) ==
    IF claim_type = "auto" THEN "auto_collision"
    ELSE IF claim_type = "home" THEN "home_property"
    ELSE IF claim_type = "health" THEN "health_emergency"
    ELSE "auto_collision"

not_found_text == <<" ","n","o","t"," ","f","o","u","n","d"," ","i","n"," ","d","a","t","a","b","a","s","e">>

\* ClaimsTools.check_policy_coverage at time t: the result dictionary
\* (policy_expiry is {} where the dictionary has no such key)
check_policy_coverage(catalog, policy_number, claim_type, claim_amount, t) ==
    LET found == _get_policy(catalog, policy_number)
    IN  IF found = {}
        THEN [is_valid |-> FALSE, coverage_type |-> "unknown", coverage_limit |-> 0,
              deductible |-> 0, is_covered |-> FALSE,
              reason |-> <<"Policy ">> \o policy_number \o not_found_text,
              policy_expiry |-> {}]
        ELSE LET policy == CHOOSE p \in found : TRUE
             IN  IF ~is_active(policy, t)
                 THEN [is_valid |-> FALSE, coverage_type |-> policy.policy_type,
                       coverage_limit |-> 0, deductible |-> 0, is_covered |-> FALSE,
                       reason |-> <<"Policy is ", policy.status, ". Expiry date: ",
                                    strftime(policy.expiry_date)>>,
                       policy_expiry |-> {policy.expiry_date}]
                 ELSE LET cov == get_coverage(policy, coverage_map(claim_type))
                      IN  IF cov = {}
                          THEN [is_valid |-> TRUE, coverage_type |-> policy.policy_type,
                                coverage_limit |-> 0, deductible |-> 0,
                                is_covered |-> FALSE,
                                reason |-> <<"Policy does not include ",
                                             coverage_map(claim_type), " coverage">>,
                                policy_expiry |-> {}]
                          ELSE LET coverage == CHOOSE x \in cov : TRUE
                               IN  [is_valid |-> TRUE,
                                    coverage_type |-> coverage_map(claim_type),
                                    coverage_limit |-> coverage.coverage_limit,
                                    deductible |-> coverage.deductible,
                                    is_covered |-> claim_amount <= coverage.coverage_limit,
                                    reason |->
                                       IF claim_amount <= coverage.coverage_limit
                                       THEN <<"Claim is within coverage limits">>
                                       ELSE <<"Claim amount exceeds coverage limit of $">>
                                            \o FormatMoney(coverage.coverage_limit),
                                    policy_expiry |-> {policy.expiry_date}]

----------------------------------------------------------------------------
(* Inputs explored                                                         *)

\* raw claim texts submitted
CT_auto == <<"C","a","r"," ","a","c","c","i","d","e","n","t",","," ","p","o","l","i","c","y"," ","P","O","L","-","A","U","T","O","-","0","0","1",","," ","r","e","p","a","i","r"," ","$","5",",","0","0","0">>
CT_home == <<"P","i","p","e"," ","b","u","r","s","t"," ","a","t"," ","h","o","m","e">>

ClaimTexts == {CT_auto, CT_home}

\* narratives the reasoning collaborator may return
N_progress == <<"C","h","e","c","k","i","n","g"," ","t","h","e"," ","p","o","l","i","c","y">>
N_blank    == <<>>
N_approved == <<"D","e","c","i","s","i","o","n",":"," ","A","P","P","R","O","V","E","D"," ","f","o","r"," ","$","1",",","5","0","0",".","0","0","."," ","C","o","n","f","i","d","e","n","c","e",":"," ","9","0","%">>
N_denied   == <<"I"," ","c","a","n","n","o","t"," ","a","p","p","r","o","v","e",":"," ","c","l","a","i","m"," ","d","e","n","i","e","d">>
N_review   == <<"T","h","i","s"," ","r","e","q","u","i","r","e","s"," ","m","a","n","u","a","l"," ","r","e","v","i","e","w">>
N_overconf == <<"F","i","n","a","l"," ","r","e","c","o","m","m","e","n","d","a","t","i","o","n",":"," ","a","p","p","r","o","v","e",","," ","c","o","n","f","i","d","e","n","c","e",":"," ","1","5","0","%">>

Narratives == {N_progress, N_blank, N_approved, N_denied, N_review, N_overconf}

\* tool invocations the collaborator may request during a round
ToolCalls ==
    { <<POL_AUTO_001, "auto", 500000>>,
      <<POL_HOME_002, "home", 2000000>>,
      <<POL_FAKE_999, "life", 500000>> }

----------------------------------------------------------------------------
(* ClaimsProcessingAgent.process_claim                                     *)

\* _create_system_prompt(): the fixed instruction text, kept as one element
_create_system_prompt ==
    <<"You are an expert insurance claims processing agent for AutoLife Insurance. [...]">>

\* the f-string of lines 135-140
user_message(text) ==
    <<"Please process this insurance claim and make a decision:\n\nCLAIM TEXT:\n">>
    \o text \o
    <<"\n\nAnalyze this claim step-by-step using your tools, then provide a final recommendation.">>

conclude_directive ==
    <<"Please provide your final recommendation now based on the information gathered.">>

Message(role, content) == [role |-> role, content |-> content]

\* add_assistant_message keeping only the two opening messages before the new one
add_assistant_message_restarting(history, content) ==
    Append(Take(history, 2), Message("assistant", content))

\* line 168: chat_history.add_assistant_message(content)
add_assistant_message(history, content) ==
    Append(history, Message("assistant", content))

\* line 169, content[:200]
LogSlice == 200

\* the fallback as it would be with the parser's default confidence left in
FallbackRecommendation_default_confidence(t) ==
    ClaimRecommendation("needs_review", 0,
        <<"Unable to complete automated processing. Manual review required.">>,
        80,
        <<"Manual review by claims adjuster", "Verify all claim details">>, t)

\* lines 199-205
FallbackRecommendation(t) ==
    ClaimRecommendation("needs_review", 0,
        <<"Unable to complete automated processing. Manual review required.">>,
        0,
        <<"Manual review by claims adjuster", "Verify all claim details">>, t)

\* rounds counted over every request, as a counter kept on the agent would
RECURSIVE RoundsOf(_)
RoundsOf(rs) ==
    IF rs = {} THEN 0
    ELSE LET r == CHOOSE x \in rs : TRUE IN iteration[r] + RoundsOf(rs \ {r})

\* the loop test as it would be on a counter shared by the requests
LoopContinues_shared(it, mx) == RoundsOf(DOMAIN iteration) < mx

\* the loop test of line 149
LoopContinues(it, mx) == it < mx

\* the test of line 187
DirectiveDue(it, mx) == it >= mx - 1

\* the test of line 195 as it would be without the `not`
NoRecommendation_inverted(c) == c.recommendation # {}

\* the test of line 195: `not claim.recommendation`
NoRecommendation(c) == c.recommendation = {}

\* Control reaches line 195 with Claim c: the fallback is stored when there is no
\* recommendation (lines 195-205).
AfterLoop(r, c) ==
    IF NoRecommendation(c)
    THEN /\ claim' = [claim EXCEPT ![r] =
                         [c EXCEPT !.recommendation = {FallbackRecommendation(now)}]]
         /\ pc' = [pc EXCEPT ![r] = "fallback_set"]
    ELSE /\ claim' = [claim EXCEPT ![r] = c]
         /\ pc' = [pc EXCEPT ![r] = "done"]

\* Control reaches the loop test of line 149 with Claim c and iteration it:
\* either the next round is sent (lines 150-160) or the loop is left.
LoopHead(r, c, it, mx) ==
    IF LoopContinues(it, mx)
    THEN /\ iteration' = [iteration EXCEPT ![r] = it + 1]
         /\ claim' = [claim EXCEPT ![r] = c]
         /\ pc' = [pc EXCEPT ![r] = "await"]
    ELSE /\ iteration' = [iteration EXCEPT ![r] = it]
         /\ AfterLoop(r, c)

\* lines 124-160: from the call to the first round-trip (or past the loop)
Start(r, text) ==
    /\ pc[r] = "idle"
    /\ claim_text' = [claim_text EXCEPT ![r] = text]
    /\ chat_history' = [chat_history EXCEPT ![r] =
                           << Message("system", _create_system_prompt),
                              Message("user", user_message(text)) >>]
    /\ max_iterations' = [max_iterations EXCEPT ![r] = agent_max_iterations]
    /\ LoopHead(r,
                add_log(add_log(Claim(text), <<"Claim submitted for processing">>, now),
                        <<"Agent analysis started">>, now),
                0, agent_max_iterations)
    /\ UNCHANGED <<policies, agent_max_iterations, now, responses, tool_result>>

\* InvokeTool as it would be if the tool's result were kept on the Claim
InvokeTool_recorded(r, call) ==
    /\ pc[r] = "await"
    /\ tool_result' = [tool_result EXCEPT ![r] =
                          {check_policy_coverage(policies, call[1], call[2], call[3], now)}]
    /\ tool_result'[r] # tool_result[r]
    /\ claim' = [claim EXCEPT ![r].coverage_check = tool_result'[r]]
    /\ UNCHANGED <<policies, agent_max_iterations, now, pc, claim_text,
                   chat_history, iteration, max_iterations, responses>>

\* during a round the collaborator has a tool run: check_policy_coverage reads
\* the catalog and its result goes back to the collaborator
InvokeTool(r, call) ==
    /\ pc[r] = "await"
    /\ tool_result' = [tool_result EXCEPT ![r] =
                          {check_policy_coverage(policies, call[1], call[2], call[3], now)}]
    /\ tool_result'[r] # tool_result[r]
    /\ UNCHANGED <<policies, agent_max_iterations, now, pc, claim_text, claim,
                   chat_history, iteration, max_iterations, responses>>

\* lines 163-190: the round-trip returns a message whose text is content
Receive(r, content) ==
    /\ pc[r] = "await"
    /\ responses' = [responses EXCEPT ![r] = Append(@, [kind |-> "message", content |-> content])]
    /\ LET logged == add_log(claim[r],
                             <<"Agent reasoning: ">> \o Take(content, LogSlice) \o <<"...">>,
                             now)
           history == add_assistant_message(chat_history[r], content)
           recommendation == _parse_recommendation(content, now)
       IN  IF _has_final_decision(content)
           THEN /\ chat_history' = [chat_history EXCEPT ![r] = history]
                /\ iteration' = iteration
                /\ IF RecommendationValid(recommendation)
                   THEN /\ claim' = [claim EXCEPT ![r] =
                              [add_log(logged, <<"Agent decision finalized">>, now)
                                 EXCEPT !.recommendation = {recommendation}]]
                        /\ pc' = [pc EXCEPT ![r] = "decided_set"]
                   ELSE \* ClaimRecommendation raises ValidationError, nothing catches it
                        /\ claim' = [claim EXCEPT ![r] =
                              add_log(logged, <<"Agent decision finalized">>, now)]
                        /\ pc' = [pc EXCEPT ![r] = "raised"]
           ELSE /\ chat_history' = [chat_history EXCEPT ![r] =
                       IF DirectiveDue(iteration[r], max_iterations[r])
                       THEN Append(history, Message("user", conclude_directive))
                       ELSE history]
                /\ LoopHead(r, logged, iteration[r], max_iterations[r])
    /\ UNCHANGED <<policies, agent_max_iterations, now, claim_text, max_iterations,
                   tool_result>>

\* line 182 and the break of line 184; line 195 finds the recommendation; return
LogDecision(r) ==
    /\ pc[r] = "decided_set"
    /\ LET recommendation == CHOOSE x \in claim[r].recommendation : TRUE
       IN  AfterLoop(r, add_log(claim[r],
                                <<"Decision: ", recommendation.status, " - $">>
                                \o FormatMoney(recommendation.approved_amount),
                                now))
    /\ UNCHANGED <<policies, agent_max_iterations, now, claim_text, chat_history,
                   iteration, max_iterations, responses, tool_result>>

\* the empty-response branch as it would be with `continue` in place of `break`
ReceiveEmpty_continue(r) ==
    /\ pc[r] = "await"
    /\ responses' = [responses EXCEPT ![r] = Append(@, [kind |-> "empty", content |-> <<>>])]
    /\ LoopHead(r, claim[r], iteration[r], max_iterations[r])
    /\ UNCHANGED <<policies, agent_max_iterations, now, claim_text, chat_history,
                   max_iterations, tool_result>>

\* lines 191-193: the round-trip returns None or an empty list
ReceiveEmpty(r) ==
    /\ pc[r] = "await"
    /\ responses' = [responses EXCEPT ![r] = Append(@, [kind |-> "empty", content |-> <<>>])]
    /\ AfterLoop(r, claim[r])
    /\ UNCHANGED <<policies, agent_max_iterations, now, claim_text, chat_history,
                   iteration, max_iterations, tool_result>>

\* line 156: the awaited round-trip raises (a timeout, a service error); no
\* handler surrounds it, so the exception leaves process_claim
CollaboratorRaises(r) ==
    /\ pc[r] = "await"
    /\ responses' = [responses EXCEPT ![r] = Append(@, [kind |-> "raise", content |-> <<>>])]
    /\ pc' = [pc EXCEPT ![r] = "raised"]
    /\ UNCHANGED <<policies, agent_max_iterations, now, claim_text, claim, chat_history,
                   iteration, max_iterations, tool_result>>

\* line 206, then the return of line 209
LogFallback(r) ==
    /\ pc[r] = "fallback_set"
    /\ claim' = [claim EXCEPT ![r] = add_log(@, <<"Defaulted to manual review">>, now)]
    /\ pc' = [pc EXCEPT ![r] = "done"]
    /\ UNCHANGED <<policies, agent_max_iterations, now, claim_text, chat_history,
                   iteration, max_iterations, responses, tool_result>>

\* time passes
Tick ==
    /\ now < MaxNow
    /\ now' = now + 1
    /\ UNCHANGED <<policies, agent_max_iterations, pc, claim_text, claim, chat_history,
                   iteration, max_iterations, responses, tool_result>>

----------------------------------------------------------------------------
(* Specifications of the orchestrator                                      *)

\* the state once the agent is constructed and before any request of Reqs is made
InitWith(Reqs, Budgets, Times) ==
    /\ policies = LoadedPolicies
    /\ agent_max_iterations \in Budgets
    /\ now \in Times
    /\ pc = [r \in Reqs |-> "idle"]
    /\ claim_text = [r \in Reqs |-> <<>>]
    /\ claim = [r \in Reqs |-> Claim(<<>>)]
    /\ chat_history = [r \in Reqs |-> <<>>]
    /\ iteration = [r \in Reqs |-> 0]
    /\ max_iterations = [r \in Reqs |-> 0]
    /\ responses = [r \in Reqs |-> <<>>]
    /\ tool_result = [r \in Reqs |-> {}]

\* one request, every narrative, a running clock
Init ==
    /\ InitWith({"r1"}, 0..MaxIterationsBound, {0})
    /\ p_content = <<>>
    /\ p_result = {}
    /\ t_call = NoCall
    /\ t_out = {}

Next ==
    \/ \E r \in DOMAIN pc, text \in ClaimTexts : Start(r, text) /\ UNCHANGED <<parse_vars, tool_vars>>
    \/ \E r \in DOMAIN pc, call \in ToolCalls : InvokeTool(r, call) /\ UNCHANGED <<parse_vars, tool_vars>>
    \/ \E r \in DOMAIN pc, content \in Narratives : Receive(r, content) /\ UNCHANGED <<parse_vars, tool_vars>>
    \/ \E r \in DOMAIN pc : ReceiveEmpty(r) /\ UNCHANGED <<parse_vars, tool_vars>>
    \/ \E r \in DOMAIN pc : CollaboratorRaises(r) /\ UNCHANGED <<parse_vars, tool_vars>>
    \/ \E r \in DOMAIN pc : LogDecision(r) /\ UNCHANGED <<parse_vars, tool_vars>>
    \/ \E r \in DOMAIN pc : LogFallback(r) /\ UNCHANGED <<parse_vars, tool_vars>>
    \/ Tick /\ UNCHANGED <<parse_vars, tool_vars>>

Spec == Init /\ [][Next]_vars

\* two requests on the same agent, interleaved at every step; the clock is read
\* at any value and does not move during the run
MaxIterationsConcurrent == 2

ConcurrentNarratives == {N_progress, N_denied, N_overconf}

ConcurrentToolCalls == { <<POL_HOME_002, "home", 2000000>> }

InitConcurrent ==
    /\ InitWith({"r1", "r2"}, 0..MaxIterationsConcurrent, 0..MaxNow)
    /\ p_content = <<>>
    /\ p_result = {}
    /\ t_call = NoCall
    /\ t_out = {}

NextConcurrent ==
    \/ \E r \in DOMAIN pc, text \in ClaimTexts : Start(r, text) /\ UNCHANGED <<parse_vars, tool_vars>>
    \/ \E r \in DOMAIN pc, call \in ConcurrentToolCalls :
          InvokeTool(r, call) /\ UNCHANGED <<parse_vars, tool_vars>>
    \/ \E r \in DOMAIN pc, content \in ConcurrentNarratives :
          Receive(r, content) /\ UNCHANGED <<parse_vars, tool_vars>>
    \/ \E r \in DOMAIN pc : ReceiveEmpty(r) /\ UNCHANGED <<parse_vars, tool_vars>>
    \/ \E r \in DOMAIN pc : CollaboratorRaises(r) /\ UNCHANGED <<parse_vars, tool_vars>>
    \/ \E r \in DOMAIN pc : LogDecision(r) /\ UNCHANGED <<parse_vars, tool_vars>>
    \/ \E r \in DOMAIN pc : LogFallback(r) /\ UNCHANGED <<parse_vars, tool_vars>>

SpecConcurrent == InitConcurrent /\ [][NextConcurrent]_vars

----------------------------------------------------------------------------
(* Specification of the recommendation parser alone                        *)

\* phrases a narrative is put together from
Phrases ==
    { <<"d","e","n","i","e","d">>,
      <<"D","E","N","Y">>,
      <<"R","e","j","e","c","t","e","d">>,
      <<"a","p","p","r","o","v","e","d">>,
      <<"A","p","p","r","o","v","e">>,
      <<"n","o","t">>,
      <<"c","l","a","i","m">>,
      <<"$","1",",","5","0","0">>,
      <<"2",",","0","0","0",".","5","0"," ","d","o","l","l","a","r","s">>,
      <<"c","o","n","f","i","d","e","n","c","e",":"," ","1","5","0","%">> }

\* " ".join(ws)
RECURSIVE JoinWords(_)
JoinWords(ws) ==
    IF ws = <<>> THEN <<>>
    ELSE IF Len(ws) = 1 THEN ws[1]
    ELSE ws[1] \o <<" ">> \o JoinWords(Tail(ws))

ParseInputs == {JoinWords(ws) : ws \in UNION {[1..n -> Phrases] : n \in 0..MaxWords}}

\* _parse_recommendation(p_content) is called: the keyword arguments it computed
\* and whether ClaimRecommendation raised ValidationError on them
ParseCall ==
    /\ p_result = {}
    /\ LET recommendation == _parse_recommendation(p_content, now)
       IN  p_result' = {[args |-> recommendation,
                         raised |-> ~RecommendationValid(recommendation)]}
    /\ UNCHANGED <<p_content, orch_vars, tool_vars>>

InitParse ==
    /\ InitWith({}, {0}, {0})
    /\ p_content \in ParseInputs
    /\ p_result = {}
    /\ t_call = NoCall
    /\ t_out = {}

NextParse == ParseCall

SpecParse == InitParse /\ [][NextParse]_vars

----------------------------------------------------------------------------
(* ClaimsTools.calculate_approved_amount  (src/agent/tools.py)              *)
(* Its amounts are in thousandths of a dollar, so that rounding to two      *)
(* decimals is visible.                                                     *)

MinOf2(a, b) == IF b < a THEN b ELSE a

MaxOf2(a, b) == IF b > a THEN b ELSE a

\* round(x, 2) of x thousandths of a dollar, x >= 0: the nearest hundredth, a
\* tie going to the even hundredth (the multiples of 125 are exact binary
\* fractions of a dollar, so a tie between them is a tie of the float too)
Round2(x) ==
    LET q == x \div 10
        r == x % 10
    IN  IF r < 5 THEN 10 * q
        ELSE IF r > 5 THEN 10 * (q + 1)
        ELSE IF q % 2 = 0 THEN 10 * q ELSE 10 * (q + 1)

\* f"${x:,.2f}" of x thousandths of a dollar
Dollars(x) == <<"$">> \o FormatMoney(Round2(x) \div 10)

\* calculate_approved_amount without the test of is_covered
calculate_approved_amount_always_covered(claim_amount, coverage_limit, deductible, is_covered) ==
    [approved_amount |-> Round2(MaxOf2(0, MinOf2(claim_amount, coverage_limit) - deductible)),
     calculation |-> <<>>,
     deductible_applied |-> deductible,
     coverage_limit_applied |-> claim_amount > coverage_limit]

\* calculate_approved_amount with the deductible taken before the limit is applied
calculate_approved_amount_deductible_first(claim_amount, coverage_limit, deductible, is_covered) ==
    IF ~is_covered
    THEN [approved_amount |-> 0, calculation |-> <<"Claim not covered by policy">>,
          deductible_applied |-> 0, coverage_limit_applied |-> FALSE]
    ELSE [approved_amount |->
              Round2(MinOf2(MaxOf2(0, claim_amount - deductible), coverage_limit)),
          calculation |-> <<>>,
          deductible_applied |-> deductible,
          coverage_limit_applied |-> claim_amount > coverage_limit]

\* calculate_approved_amount with the result left unrounded
calculate_approved_amount_unrounded(claim_amount, coverage_limit, deductible, is_covered) ==
    IF ~is_covered
    THEN [approved_amount |-> 0, calculation |-> <<"Claim not covered by policy">>,
          deductible_applied |-> 0, coverage_limit_applied |-> FALSE]
    ELSE [approved_amount |-> MaxOf2(0, MinOf2(claim_amount, coverage_limit) - deductible),
          calculation |-> <<>>,
          deductible_applied |-> deductible,
          coverage_limit_applied |-> claim_amount > coverage_limit]

\* ClaimsTools.calculate_approved_amount: the result dictionary (the arrow of the
\* calculation trail is written "->")
calculate_approved_amount(claim_amount, coverage_limit, deductible, is_covered) ==
    IF ~is_covered
    THEN [approved_amount |-> 0, calculation |-> <<"Claim not covered by policy">>,
          deductible_applied |-> 0, coverage_limit_applied |-> FALSE]
    ELSE LET amount_after_limit == MinOf2(claim_amount, coverage_limit)
             coverage_limit_applied == claim_amount > coverage_limit
             approved_amount == MaxOf2(0, amount_after_limit - deductible)
         IN  [approved_amount |-> Round2(approved_amount),
              calculation |->
                  <<"Claim: ">> \o Dollars(claim_amount)
                  \o (IF coverage_limit_applied
                      THEN <<" -> Limited to coverage: ">> \o Dollars(coverage_limit)
                      ELSE <<>>)
                  \o <<" -> Minus deductible: ">> \o Dollars(deductible)
                  \o <<" -> Approved: ">> \o Dollars(approved_amount),
              deductible_applied |-> deductible,
              coverage_limit_applied |-> coverage_limit_applied]

----------------------------------------------------------------------------
(* ClaimsTools.assess_fraud_risk  (src/agent/tools.py)                      *)
(* claim_amount is in cents.                                                *)

\* str.count(k): the number of non-overlapping occurrences of k in s from index i
RECURSIVE CountFrom(_, _, _)
CountFrom(s, k, i) ==
    IF i + Len(k) - 1 > Len(s) THEN 0
    ELSE IF StartsAt(s, i, k) THEN 1 + CountFrom(s, k, i + Len(k))
    ELSE CountFrom(s, k, i + 1)

urgency_words == << <<"u","r","g","e","n","t">>,
       <<"i","m","m","e","d","i","a","t","e","l","y">>,
       <<"u","r","g","e","n","t","l","y">> >>

documentation_words == << <<"n","o"," ","w","i","t","n","e","s","s">>,
       <<"n","o"," ","p","o","l","i","c","e"," ","r","e","p","o","r","t">> >>

distress_words == << <<"f","i","n","a","n","c","i","a","l"," ","d","i","f","f","i","c","u","l","t">>,
       <<"n","e","e","d"," ","m","o","n","e","y">>,
       <<"c","a","s","h">>,
       <<"p","a","y","m","e","n","t"," ","t","o","d","a","y">> >>

claim_word == <<"c","l","a","i","m">>

repeated_claim_words == << <<"p","r","e","v","i","o","u","s"," ","c","l","a","i","m">>,
       <<"o","t","h","e","r"," ","c","l","a","i","m">> >>

connection_words == << <<"c","o","u","s","i","n">>,
       <<"f","r","i","e","n","d">>,
       <<"f","a","m","i","l","y">> >>

repair_words == << <<"r","e","p","a","i","r">>,
       <<"s","h","o","p">> >>

vague_words == << <<"n","o","t"," ","s","u","r","e">>,
       <<"d","o","n","'","t"," ","k","n","o","w">>,
       <<"n","o","t"," ","e","x","a","c","t","l","y">> >>

\* lines 245-276: which of the eight tests fire, in the order of the code
FraudTests(text, claim_amount, policy_age_days) ==
    LET claim_lower == Lower(text)
    IN  << policy_age_days < 30,
           claim_amount > 1000000,
           ContainsAny(claim_lower, urgency_words),
           ContainsAny(claim_lower, documentation_words),
           ContainsAny(claim_lower, distress_words),
           \/ CountFrom(claim_lower, claim_word, 1) > 3
           \/ ContainsAny(claim_lower, repeated_claim_words),
           /\ ContainsAny(claim_lower, connection_words)
           /\ ContainsAny(claim_lower, repair_words),
           ContainsAny(claim_lower, vague_words) >>

\* what each test adds to risk_score and appends to indicators
FraudWeights == <<25, 15, 10, 20, 20, 25, 15, 10>>

FraudIndicators ==
    << "Policy is very new (less than 30 days)",
       "High claim amount (over $10,000)",
       "Urgency language detected",
       "Lack of documentation or witnesses",
       "Financial distress mentioned",
       "Multiple recent claims mentioned",
       "Repair shop has personal connection",
       "Vague or inconsistent details" >>

\* risk_score and indicators after the tests k..8
RECURSIVE FraudScoreFrom(_, _)
FraudScoreFrom(fired, k) ==
    IF k > Len(fired) THEN 0
    ELSE (IF fired[k] THEN FraudWeights[k] ELSE 0) + FraudScoreFrom(fired, k + 1)

RECURSIVE FraudIndicatorsFrom(_, _)
FraudIndicatorsFrom(fired, k) ==
    IF k > Len(fired) THEN <<>>
    ELSE (IF fired[k] THEN <<FraudIndicators[k]>> ELSE <<>>)
         \o FraudIndicatorsFrom(fired, k + 1)

\* FraudLevelOf with the threshold of high moved to 50
FraudLevelOf_high_from_50(risk_score) ==
    IF risk_score >= 70
    THEN [risk_level |-> "critical", requires_investigation |-> TRUE,
          recommendation |-> "REJECT - High fraud risk, requires immediate investigation"]
    ELSE IF risk_score >= 50
    THEN [risk_level |-> "high", requires_investigation |-> TRUE,
          recommendation |-> "HOLD - Multiple fraud indicators, manual review required"]
    ELSE IF risk_score >= 20
    THEN [risk_level |-> "medium", requires_investigation |-> TRUE,
          recommendation |-> "REVIEW - Some concerns, additional verification recommended"]
    ELSE [risk_level |-> "low", requires_investigation |-> FALSE,
          recommendation |-> "PROCEED - Low fraud risk, normal processing"]

\* lines 279-294: the level from the uncapped risk_score
FraudLevelOf(risk_score) ==
    IF risk_score >= 70
    THEN [risk_level |-> "critical", requires_investigation |-> TRUE,
          recommendation |-> "REJECT - High fraud risk, requires immediate investigation"]
    ELSE IF risk_score >= 40
    THEN [risk_level |-> "high", requires_investigation |-> TRUE,
          recommendation |-> "HOLD - Multiple fraud indicators, manual review required"]
    ELSE IF risk_score >= 20
    THEN [risk_level |-> "medium", requires_investigation |-> TRUE,
          recommendation |-> "REVIEW - Some concerns, additional verification recommended"]
    ELSE [risk_level |-> "low", requires_investigation |-> FALSE,
          recommendation |-> "PROCEED - Low fraud risk, normal processing"]

\* the reported risk_score without the cap of line 298
ReportedScore_uncapped(risk_score) == risk_score

\* line 298: min(risk_score, 100.0)
ReportedScore(risk_score) == MinOf2(risk_score, 100)

\* ClaimsTools.assess_fraud_risk: the result dictionary
assess_fraud_risk(text, claim_amount, policy_age_days) ==
    LET fired      == FraudTests(text, claim_amount, policy_age_days)
        risk_score == FraudScoreFrom(fired, 1)
        indicators == FraudIndicatorsFrom(fired, 1)
        level      == FraudLevelOf(risk_score)
    IN  [risk_level |-> level.risk_level,
         risk_score |-> ReportedScore(risk_score),
         indicators |-> IF indicators # <<>> THEN indicators
                        ELSE <<"No significant fraud indicators detected">>,
         recommendation |-> level.recommendation,
         requires_investigation |-> level.requires_investigation]

----------------------------------------------------------------------------
(* ClaimsTools.extract_claim_information  (src/agent/tools.py)              *)
(* claim_amount is in cents.                                                *)

\* the upper-case letter of each lower-case letter
UpperOf == [c \in {LowerLetters[i] : i \in 1..26} |->
              UpperLetters[CHOOSE i \in 1..26 : LowerLetters[i] = c]]

\* str.upper()
Upper(s) == [i \in 1..Len(s) |-> IF s[i] \in DOMAIN UpperOf THEN UpperOf[s[i]] ELSE s[i]]

\* regular expression classes [A-Z] and [a-z]
IsUpper(c) == c \in DOMAIN LowerOf

IsLower(c) == c \in DOMAIN UpperOf

\* first index >= i of s that does not hold a letter
RECURSIVE SkipLetters(_, _)
SkipLetters(s, i) ==
    IF i <= Len(s) /\ (IsUpper(s[i]) \/ IsLower(s[i])) THEN SkipLetters(s, i + 1) ELSE i

\* first index >= i of s that does not hold a lower-case letter
RECURSIVE SkipLower(_, _)
SkipLower(s, i) ==
    IF i <= Len(s) /\ IsLower(s[i]) THEN SkipLower(s, i + 1) ELSE i

\* the least element of a non-empty set of indices
MinIndex(hits) == CHOOSE i \in hits : \A j \in hits : i <= j

pol_prefix == <<"p","o","l","-">>

\* r'POL-[A-Z]+-\d+' with re.IGNORECASE matched at index i of s (lower is
\* s.lower()): the index after the match, or 0 when it does not match there
PolicyMatchEnd(s, lower, i) ==
    IF ~StartsAt(lower, i, pol_prefix) THEN 0
    ELSE LET j == SkipLetters(s, i + Len(pol_prefix))
         IN  IF j = i + Len(pol_prefix) \/ j > Len(s) \/ s[j] # "-" THEN 0
             ELSE LET k == SkipDigits(s, j + 1)
                  IN  IF k = j + 1 THEN 0 ELSE k

unknown_policy == <<"U","N","K","N","O","W","N">>

\* lines 73-74: group(0) of the leftmost match, else "UNKNOWN"
PolicyNumberOf(text) ==
    LET lower == Lower(text)
        hits  == {i \in 1..Len(text) : PolicyMatchEnd(text, lower, i) > 0}
    IN  IF hits = {} THEN unknown_policy
        ELSE SubSeq(text, MinIndex(hits), PolicyMatchEnd(text, lower, MinIndex(hits)) - 1)

pol_auto == <<"P","O","L","-","A","U","T","O">>

pol_home == <<"P","O","L","-","H","O","M","E">>

pol_health == <<"P","O","L","-","H","E","A","L","T","H">>

health_keywords ==
    << <<"h","o","s","p","i","t","a","l">>,
       <<"m","e","d","i","c","a","l">>,
       <<"h","e","a","l","t","h">>,
       <<"e","m","e","r","g","e","n","c","y">>,
       <<"d","o","c","t","o","r">>,
       <<"c","h","e","s","t"," ","p","a","i","n">>,
       <<"h","e","a","r","t">>,
       <<"e","k","g">>,
       <<"a","m","b","u","l","a","n","c","e">>,
       <<"p","a","t","i","e","n","t">>,
       <<"d","i","a","g","n","o","s","i","s">> >>

home_keywords ==
    << <<"h","o","m","e">>,
       <<"h","o","u","s","e">>,
       <<"p","r","o","p","e","r","t","y">>,
       <<"p","i","p","e">>,
       <<"t","h","e","f","t">>,
       <<"b","u","r","g","l","a","r","y">>,
       <<"f","i","r","e">>,
       <<"w","a","t","e","r"," ","d","a","m","a","g","e">> >>

auto_keywords ==
    << <<"c","a","r">>,
       <<"v","e","h","i","c","l","e">>,
       <<"c","o","l","l","i","s","i","o","n">>,
       <<"a","u","t","o">>,
       <<"d","r","i","v","i","n","g">>,
       <<"w","i","n","d","s","h","i","e","l","d">>,
       <<"f","e","n","d","e","r">> >>

\* lines 77-91: the policy number's prefix first, then the keywords of the text
ClaimTypeOf(policy_number, text) ==
    LET upper == Upper(policy_number)
        lower == Lower(text)
    IN  IF Contains(upper, pol_auto) THEN "auto"
        ELSE IF Contains(upper, pol_home) THEN "home"
        ELSE IF Contains(upper, pol_health) THEN "health"
        ELSE IF ContainsAny(lower, health_keywords) THEN "health"
        ELSE IF ContainsAny(lower, home_keywords) THEN "home"
        ELSE IF ContainsAny(lower, auto_keywords) THEN "auto"
        ELSE "auto"

\* r'\$?(\d{1,3}(?:,\d{3})*(?:\.\d{2})?)' matched at index i:
\* <<value, index after the match>>, or <<>> when it does not match there
ClaimAmountMatchAt(s, i) ==
    LET j  == IF s[i] = "$" THEN i + 1 ELSE i
        ok == NumCandidates(s, j)
    IN  IF ok = {} THEN <<>>
        ELSE LET c == CHOOSE c \in ok : \A d \in ok : TriedBefore(c, d)
             IN  <<NumValue(s, j, c), NumEnd(j, c[1], c[2], c[3])>>

\* line 94: re.findall, the values of the successive non-overlapping matches
RECURSIVE FindAllClaimAmounts(_, _)
FindAllClaimAmounts(s, i) ==
    IF i > Len(s) THEN <<>>
    ELSE LET m == ClaimAmountMatchAt(s, i)
         IN  IF m = <<>> THEN FindAllClaimAmounts(s, i + 1)
             ELSE <<m[1]>> \o FindAllClaimAmounts(s, m[2])

\* line 95: the values kept are those above 100 dollars
NoiseFloor == 10000

\* line 96: the default claim amount, 1000.0
DefaultClaimAmount == 100000

\* lines 94-96
ClaimAmountOf(text) ==
    LET found   == FindAllClaimAmounts(text, 1)
        amounts == {found[k] : k \in {k \in 1..Len(found) : found[k] > NoiseFloor}}
    IN  IF amounts # {} THEN CHOOSE m \in amounts : \A a \in amounts : a <= m
        ELSE DefaultClaimAmount

november_word == <<"n","o","v","e","m","b","e","r">>

nov_word == <<"n","o","v">>

year_2025 == <<"2","0","2","5">>

\* r'\s+(\d{1,2}),?\s+2025' matched at index j: <<start, end>> of the day's
\* digits, or <<>>
DayAndYearAt(s, j) ==
    LET a == SkipSpaces(s, j)
        b == SkipDigits(s, a)
        c == IF b <= Len(s) /\ s[b] = "," THEN b + 1 ELSE b
        d == SkipSpaces(s, c)
    IN  IF a > j /\ b - a \in 1..2 /\ d > c /\ StartsAt(s, d, year_2025)
        THEN <<a, b>> ELSE <<>>

\* r'(?:November|Nov)\s+(\d{1,2}),?\s+2025' with re.IGNORECASE matched at index i
MonthNameDateAt(s, lower, i) ==
    IF StartsAt(lower, i, november_word)
       /\ DayAndYearAt(s, i + Len(november_word)) # <<>>
    THEN DayAndYearAt(s, i + Len(november_word))
    ELSE IF StartsAt(lower, i, nov_word)
    THEN DayAndYearAt(s, i + Len(nov_word))
    ELSE <<>>

slash_2025 == <<"/","2","0","2","5">>

\* r'(\d{1,2})/(\d{1,2})/2025' matches at index i
SlashDateAt(s, i) ==
    \E m \in 1..2, n \in 1..2 :
        /\ i + m + n <= Len(s)
        /\ \A k \in 0..(m - 1) : IsDigit(s[i + k])
        /\ s[i + m] = "/"
        /\ \A k \in 1..n : IsDigit(s[i + m + k])
        /\ StartsAt(s, i + m + n + 1, slash_2025)

iso_2025 == <<"2","0","2","5","-">>

\* r'2025-(\d{2})-(\d{2})' matches at index i
IsoDateAt(s, i) ==
    /\ StartsAt(s, i, iso_2025)
    /\ i + 9 <= Len(s)
    /\ IsDigit(s[i + 5]) /\ IsDigit(s[i + 6])
    /\ s[i + 7] = "-"
    /\ IsDigit(s[i + 8]) /\ IsDigit(s[i + 9])

\* datetime(year, month, day): the date, or nothing when it raises ValueError
DaysIn(month) ==
    IF month \in {4, 6, 9, 11} THEN 30 ELSE IF month = 2 THEN 28 ELSE 31

datetime(year, month, day) ==
    IF month \in 1..12 /\ day >= 1 /\ day <= DaysIn(month)
    THEN {[calendar |-> <<year, month, day>>, clock |-> {}]}
    ELSE {}

\* datetime.now() read at clock value t
datetime_now(t) == [calendar |-> <<>>, clock |-> {t}]

\* lines 105-112: the first pattern of date_patterns that matches decides and ends
\* the loop; only the month-name pattern assigns incident_date. The result is
\* the set holding incident_date, empty when datetime raised.
IncidentDateOf(text, t) ==
    LET lower  == Lower(text)
        named  == {i \in 1..Len(text) : MonthNameDateAt(text, lower, i) # <<>>}
    IN  IF named # {}
        THEN LET g   == MonthNameDateAt(text, lower, MinIndex(named))
                 day == IntOf(text, g[1], g[2])
             IN  datetime(2025, 11, day)
        ELSE IF \E i \in 1..Len(text) : SlashDateAt(text, i)
        THEN {datetime_now(t)}
        ELSE IF \E i \in 1..Len(text) : IsoDateAt(text, i)
        THEN {datetime_now(t)}
        ELSE {datetime_now(t)}

policyholder_word == <<"p","o","l","i","c","y","h","o","l","d","e","r">>

\* r'policyholder[:\s]+([A-Z][a-z]+\s+[A-Z][a-z]+)' matched at index i:
\* <<start, end>> of the group, or <<>>
NameMatchAt(s, i) ==
    IF ~StartsAt(s, i, policyholder_word) THEN <<>>
    ELSE LET a == SkipColonSpaces(s, i + Len(policyholder_word))
             b == SkipLower(s, a + 1)
             c == SkipSpaces(s, b)
             d == SkipLower(s, c + 1)
         IN  IF /\ a > i + Len(policyholder_word)
                /\ a <= Len(s) /\ IsUpper(s[a]) /\ b > a + 1
                /\ c > b
                /\ c <= Len(s) /\ IsUpper(s[c]) /\ d > c + 1
             THEN <<a, d>> ELSE <<>>

\* lines 115-119: claimant_name, None when absent
ClaimantNameOf(text) ==
    IF ~Contains(Lower(text), policyholder_word) THEN {}
    ELSE LET hits == {i \in 1..Len(text) : NameMatchAt(text, i) # <<>>}
         IN  IF hits = {} THEN {}
             ELSE LET g == NameMatchAt(text, MinIndex(hits))
                  IN  {SubSeq(text, g[1], g[2] - 1)}

\* line 122
DescriptionLimit == 200

DescriptionOf(text) ==
    IF Len(text) > DescriptionLimit THEN Take(text, DescriptionLimit) \o <<"...">> ELSE text

\* ClaimsTools.extract_claim_information called at clock value t: whether it raised,
\* and the result dictionary when it did not
extract_claim_information(text, t) ==
    LET policy_number == PolicyNumberOf(text)
        incident_date == IncidentDateOf(text, t)
    IN  IF incident_date = {}
        THEN [raised |-> TRUE, result |-> {}]
        ELSE [raised |-> FALSE,
              result |-> {[policy_number |-> policy_number,
                           claim_type    |-> ClaimTypeOf(policy_number, text),
                           incident_date |-> CHOOSE d \in incident_date : TRUE,
                           claim_amount  |-> ClaimAmountOf(text),
                           description   |-> DescriptionOf(text),
                           claimant_name |-> ClaimantNameOf(text)]}]

----------------------------------------------------------------------------
(* Specifications of the tool functions alone                              *)

\* amounts handed to calculate_approved_amount, in thousandths of a dollar:
\* the multiples of an eighth of a dollar, and the amounts of the test-suite
MaxEighths == 4

SettleAmounts == {125 * k : k \in 0..MaxEighths} \cup {500000, 10000000, 50000000, 60000000}

SettleInputs ==
    {[tool |-> "calculate_approved_amount", claim_amount |-> a, coverage_limit |-> l,
      deductible |-> d, is_covered |-> c] :
        a \in SettleAmounts, l \in SettleAmounts, d \in SettleAmounts, c \in BOOLEAN}

\* calculate_approved_amount(**t_call) is called and returns
SettleCall ==
    /\ t_call.tool = "calculate_approved_amount"
    /\ t_out = {}
    /\ t_out' = {[raised |-> FALSE,
                  result |-> calculate_approved_amount(t_call.claim_amount,
                                 t_call.coverage_limit, t_call.deductible,
                                 t_call.is_covered)]}
    /\ UNCHANGED <<t_call, orch_vars, parse_vars>>

InitSettle ==
    /\ InitWith({}, {0}, {0})
    /\ p_content = <<>>
    /\ p_result = {}
    /\ t_call \in SettleInputs
    /\ t_out = {}

NextSettle == SettleCall

SpecSettle == InitSettle /\ [][NextSettle]_vars

\* phrases a claim text handed to assess_fraud_risk is put together from; a text
\* holds any of the first MaxFraudPhrases of them, in this order
FraudPhrases ==
    << <<"U","R","G","E","N","T">>,
       <<"N","o"," ","w","i","t","n","e","s","s">>,
       <<"c","a","s","h">>,
       <<"p","r","e","v","i","o","u","s"," ","c","l","a","i","m">>,
       <<"m","y"," ","c","o","u","s","i","n">>,
       <<"t","h","e"," ","s","h","o","p">>,
       <<"N","o","t"," ","s","u","r","e">>,
       <<"c","l","a","i","m"," ","c","l","a","i","m"," ","c","l","a","i","m"," ","c","l","a","i","m">>,
       <<"o","t","h","e","r">> >>

MaxFraudPhrases == 7

RECURSIVE SelectPhrases(_, _)
SelectPhrases(chosen, k) ==
    IF k > Len(FraudPhrases) THEN <<>>
    ELSE (IF k \in chosen THEN <<FraudPhrases[k]>> ELSE <<>>) \o SelectPhrases(chosen, k + 1)

FraudTexts ==
    {JoinWords(SelectPhrases(chosen, 1)) :
        chosen \in SUBSET (1..MinOf2(MaxFraudPhrases, Len(FraudPhrases)))}

\* claim amounts (cents) and policy ages (days) on both sides of the two thresholds
FraudAmounts == {1000000, 1000001}

FraudAges == {29, 30}

FraudInputs ==
    {[tool |-> "assess_fraud_risk", claim_text |-> x, claim_amount |-> a,
      policy_age_days |-> d] : x \in FraudTexts, a \in FraudAmounts, d \in FraudAges}

\* assess_fraud_risk(**t_call) is called and returns
FraudCall ==
    /\ t_call.tool = "assess_fraud_risk"
    /\ t_out = {}
    /\ t_out' = {[raised |-> FALSE,
                  result |-> assess_fraud_risk(t_call.claim_text, t_call.claim_amount,
                                               t_call.policy_age_days)]}
    /\ UNCHANGED <<t_call, orch_vars, parse_vars>>

InitFraud ==
    /\ InitWith({}, {0}, {0})
    /\ p_content = <<>>
    /\ p_result = {}
    /\ t_call \in FraudInputs
    /\ t_out = {}

NextFraud == FraudCall

SpecFraud == InitFraud /\ [][NextFraud]_vars


\* the policies a catalog may hold under number POL-AUTO-001: every status, every
\* validity window within the clock's range, with and without each coverage
CoverageLists ==
    { <<>>,
      << [coverage_type |-> "auto_collision", coverage_limit |-> 5000000,
          deductible |-> 50000] >>,
      << [coverage_type |-> "home_property", coverage_limit |-> 1000000,
          deductible |-> 100000],
         [coverage_type |-> "health_emergency", coverage_limit |-> 2000000,
          deductible |-> 25000] >> }

PolicyUniverse ==
    {[policy_number |-> POL_AUTO_001, policy_type |-> "auto", status |-> s,
      effective_date |-> e, expiry_date |-> x, coverages |-> c] :
        s \in PolicyStatus, e \in 0..MaxNow, x \in 0..MaxNow, c \in CoverageLists}

\* catalogs: the loaded one, and the loaded one behind a policy of the universe
Catalogs == {LoadedPolicies} \cup {<<p>> \o LoadedPolicies : p \in PolicyUniverse}

pol_auto_001_lower == <<"p","o","l","-","a","u","t","o","-","0","0","1">>

CoverageInputs ==
    {[tool |-> "check_policy_coverage", policy_number |-> n, claim_type |-> ty,
      claim_amount |-> a] :
        n \in {POL_AUTO_001, POL_HOME_002, POL_FAKE_999, pol_auto_001_lower},
        ty \in {"auto", "home", "health", "life", "AUTO"},
        a \in {1000000, 1000001, 5000000, 5000001}}

\* check_policy_coverage(**t_call) is called and returns
CoverageCall ==
    /\ t_call.tool = "check_policy_coverage"
    /\ t_out = {}
    /\ t_out' = {[raised |-> FALSE,
                  result |-> check_policy_coverage(policies, t_call.policy_number,
                                 t_call.claim_type, t_call.claim_amount, now)]}
    /\ UNCHANGED <<t_call, orch_vars, parse_vars>>

InitCoverage ==
    /\ policies \in Catalogs
    /\ agent_max_iterations = 0
    /\ now \in 0..MaxNow
    /\ pc = <<>>
    /\ claim_text = <<>>
    /\ claim = <<>>
    /\ chat_history = <<>>
    /\ iteration = <<>>
    /\ max_iterations = <<>>
    /\ responses = <<>>
    /\ tool_result = <<>>
    /\ p_content = <<>>
    /\ p_result = {}
    /\ t_call \in CoverageInputs
    /\ t_out = {}

NextCoverage == CoverageCall

SpecCoverage == InitCoverage /\ [][NextCoverage]_vars

\* the amounts of check_policy_coverage are in cents, those of
\* calculate_approved_amount in thousandths of a dollar
Thousandths(cents) == 10 * cents

SettleArguments_valid_as_covered(claim_amount, coverage) ==
    [tool |-> "calculate_approved_amount",
     claim_amount |-> Thousandths(claim_amount),
     coverage_limit |-> Thousandths(coverage.coverage_limit),
     deductible |-> Thousandths(coverage.deductible),
     is_covered |-> coverage.is_valid]

\* step 4 of the process after step 2: the arguments of calculate_approved_amount
\* taken from the dictionary check_policy_coverage returned for claim_amount
SettleArguments(claim_amount, coverage) ==
    [tool |-> "calculate_approved_amount",
     claim_amount |-> Thousandths(claim_amount),
     coverage_limit |-> Thousandths(coverage.coverage_limit),
     deductible |-> Thousandths(coverage.deductible),
     is_covered |-> coverage.is_covered]

\* calculate_approved_amount is called with what check_policy_coverage returned
\* for the same claim amount, and returns
SettleAfterCoverage ==
    /\ t_call.tool = "check_policy_coverage"
    /\ \E x \in t_out :
          LET call == SettleArguments(t_call.claim_amount, x.result)
          IN  /\ t_call' = call
              /\ t_out' = {[raised |-> FALSE,
                            result |-> calculate_approved_amount(call.claim_amount,
                                           call.coverage_limit, call.deductible,
                                           call.is_covered)]}
    /\ UNCHANGED <<orch_vars, parse_vars>>

InitCoverageSettle == InitCoverage

NextCoverageSettle ==
    \/ CoverageCall
    \/ SettleAfterCoverage

SpecCoverageSettle == InitCoverageSettle /\ [][NextCoverageSettle]_vars

\* phrases a raw claim text handed to extract_claim_information is put together from
ExtractPhrases ==
    { <<"P","O","L","-","A","U","T","O","-","0","0","1">>,
      <<"p","o","l","-","h","o","m","e","-","2">>,
      <<"$","5",",","0","0","0">>,
      <<"$","5","0","0","0">>,
      <<"2","5","0",".","5","0">>,
      <<"N","o","v","e","m","b","e","r"," ","2","0",","," ","2","0","2","5">>,
      <<"N","o","v"," ","3","1"," ","2","0","2","5">>,
      <<"1","1","/","2","0","/","2","0","2","5">>,
      <<"2","0","2","5","-","1","1","-","2","0">>,
      <<"p","o","l","i","c","y","h","o","l","d","e","r",":"," ","J","o","h","n"," ","S","m","i","t","h">>,
      <<"h","o","s","p","i","t","a","l">>,
      <<"c","a","r">>,
      <<"$","1","2",",","0","0","0",",","0","0","0">> }

MaxExtractWords == 2

ExtractTexts ==
    {JoinWords(ws) : ws \in UNION {[1..n -> ExtractPhrases] : n \in 0..MaxExtractWords}}

ExtractInputs == {[tool |-> "extract_claim_information", claim_text |-> x] : x \in ExtractTexts}

\* extract_claim_information(**t_call) is called: it returns or raises
ExtractCall ==
    /\ t_call.tool = "extract_claim_information"
    /\ t_out = {}
    /\ t_out' = {extract_claim_information(t_call.claim_text, now)}
    /\ UNCHANGED <<t_call, orch_vars, parse_vars>>

InitExtract ==
    /\ InitWith({}, {0}, 0..MaxNow)
    /\ p_content = <<>>
    /\ p_result = {}
    /\ t_call \in ExtractInputs
    /\ t_out = {}

NextExtract == ExtractCall

SpecExtract == InitExtract /\ [][NextExtract]_vars

----------------------------------------------------------------------------
(* Vocabulary of the properties                                            *)

\* word occurs in text, case-insensitively, anywhere
OccursCI(text, word) ==
    \E i \in 1..(Len(text) - Len(word) + 1) :
        \A m \in 1..Len(word) : LowerChar(text[i + m - 1]) = word[m]

\* the narrative holds terminal-decision language
Terminal(content) ==
    \E j \in 1..Len(decision_keywords) : OccursCI(content, decision_keywords[j])

\* the recommendation of request r, when it has one
TheRecommendation(r) == CHOOSE x \in claim[r].recommendation : TRUE

\* the five fields of the fallback recommendation
IsFallback(rec) ==
    /\ rec.status = "needs_review"
    /\ rec.approved_amount = 0
    /\ rec.confidence = 0
    /\ rec.reasoning = <<"Unable to complete automated processing. Manual review required.">>
    /\ rec.next_steps = <<"Manual review by claims adjuster", "Verify all claim details">>

\* collaborator calls issued so far for request r: the answered ones and the pending one
Calls(r) == Len(responses[r]) + (IF pc[r] = "await" THEN 1 ELSE 0)

\* no round of request r so far produced terminal-decision language: each round
\* returned a message whose narrative has none of the phrases
NoTerminalRound(r) ==
    \A k \in 1..Len(responses[r]) :
        /\ responses[r][k].kind = "message"
        /\ ~Terminal(responses[r][k].content)

IsPrefix(a, b) == Len(a) <= Len(b) /\ SubSeq(b, 1, Len(a)) = a

----------------------------------------------------------------------------
(* C1..C10                                                                 *)

\* C1: when no round within the budget produces a narrative with terminal-decision
\* language, process_claim does not fail and the Claim it returns carries exactly
\* the fallback recommendation (needs_review, amount 0, confidence 0, the fixed
\* reasoning and next steps).
C1_FallbackOnExhaustion ==
    \A r \in DOMAIN pc :
        NoTerminalRound(r) =>
            /\ pc[r] # "raised"
            /\ pc[r] = "done" =>
                  /\ claim[r].recommendation # {}
                  /\ IsFallback(TheRecommendation(r))

\* a request that used its whole budget of at least two rounds, each returning a
\* non-empty narrative without the phrases, and returned the fallback
C1_Witness ==
    \E r \in DOMAIN pc :
        /\ pc[r] = "done"
        /\ max_iterations[r] >= 2
        /\ Len(responses[r]) = max_iterations[r]
        /\ NoTerminalRound(r)
        /\ \A k \in 1..Len(responses[r]) : responses[r][k].content # <<>>
        /\ IsFallback(TheRecommendation(r))

\* C2: the first round whose narrative holds terminal-decision language decides the
\* request: it is the last round sent, the request is decided (not failed), and the
\* Claim's recommendation is the one parsed from that narrative, not the fallback.
C2_FirstDecisionDecides ==
    \A r \in DOMAIN pc :
        \A k \in 1..Len(responses[r]) :
            (responses[r][k].kind = "message" /\ Terminal(responses[r][k].content)) =>
                /\ k = Len(responses[r])
                /\ Calls(r) = k
                /\ pc[r] \in {"decided_set", "done"}
                /\ claim[r].recommendation # {}
                /\ TheRecommendation(r) =
                      _parse_recommendation(responses[r][k].content,
                                            TheRecommendation(r).processed_at)
                /\ ~IsFallback(TheRecommendation(r))

\* C3: when every collaborator call returns, process_claim issues at most
\* maxIterations calls and ends decided or exhausted, never by a failure.
C3_BudgetThenTerminal ==
    \A r \in DOMAIN pc :
        (\A k \in 1..Len(responses[r]) : responses[r][k].kind # "raise") =>
            /\ Calls(r) <= max_iterations[r]
            /\ pc[r] # "raised"

\* C4: every Claim returned has a recommendation whose status is approved, denied
\* or needs_review.
C4_ReturnedIsTerminal ==
    \A r \in DOMAIN pc :
        pc[r] = "done" =>
            /\ claim[r].recommendation # {}
            /\ TheRecommendation(r).status \in {"approved", "denied", "needs_review"}

\* a Claim returned with a parsed approval after more than one round
C4_Witness ==
    \E r \in DOMAIN pc :
        /\ pc[r] = "done"
        /\ Len(responses[r]) >= 2
        /\ TheRecommendation(r).status = "approved"

C6_FailureRecovered ==
    \A r \in DOMAIN pc :
        (Len(responses[r]) > 0 /\ responses[r][Len(responses[r])].kind \in {"raise", "empty"}) =>
            /\ pc[r] # "raised"
            /\ pc[r] = "done" => IsFallback(TheRecommendation(r))

\* C7: once the recommendation of a Claim is set with a status other than pending,
\* no later step changes any field of the Claim, its processing_log included.
C7_TerminalNotMutated ==
    [][\A r \in DOMAIN pc :
          (claim[r].recommendation # {} /\ TheRecommendation(r).status # "pending")
              => claim'[r] = claim[r]]_vars

\* messages handed to add_log when it is tried on a Claim
ProbeMessages == {<<"Test log entry">>, <<>>, N_progress}

\* C8: processing_log is append-only and ordered by insertion: add_log puts exactly
\* one entry holding the message at the end and leaves the rest of the Claim alone,
\* every step of process_claim keeps the earlier log as a prefix, and the first
\* entry is "Claim submitted for processing".
C8_LogAppendOnly ==
    /\ [](\A r \in DOMAIN pc :
            \A message \in ProbeMessages, t \in 0..MaxNow :
                LET before == claim[r]
                    after  == add_log(claim[r], message, t)
                IN  /\ Len(after.processing_log) = Len(before.processing_log) + 1
                    /\ IsPrefix(before.processing_log, after.processing_log)
                    /\ Contains(after.processing_log[Len(after.processing_log)], message)
                    /\ [after EXCEPT !.processing_log = before.processing_log] = before)
    /\ [](\A r \in DOMAIN pc :
            pc[r] # "idle" =>
                /\ claim[r].processing_log # <<>>
                /\ Contains(claim[r].processing_log[1], <<"Claim submitted for processing">>))
    /\ [][\A r \in DOMAIN pc :
            IsPrefix(claim[r].processing_log, claim'[r].processing_log)]_vars

\* a returned Claim whose log holds the entries of a whole run
C8_Witness ==
    \E r \in DOMAIN pc :
        /\ pc[r] = "done"
        /\ Len(claim[r].processing_log) >= 6

\* what request q owns
Local(q) ==
    <<pc[q], claim_text[q], claim[q], chat_history[q], iteration[q], max_iterations[q],
      responses[q], tool_result[q]>>

\* The Claim a request produces when it runs alone: the rounds in sequence on the
\* responses resp, budget mx, clock t. The result is <<Claim, finished>>; finished
\* is FALSE when the run would send another round after the last response.
RECURSIVE AloneRounds(_, _, _, _, _)
AloneRounds(c, resp, k, mx, t) ==
    IF k >= mx THEN <<c, TRUE>>
    ELSE IF k >= Len(resp) THEN <<c, FALSE>>
    ELSE IF resp[k + 1].kind # "message" THEN <<c, k + 1 = Len(resp)>>
    ELSE LET content == resp[k + 1].content
             c1 == add_log(c, <<"Agent reasoning: ">> \o Take(content, 200) \o <<"...">>, t)
             rec == _parse_recommendation(content, t)
         IN  IF Terminal(content)
             THEN << add_log([add_log(c1, <<"Agent decision finalized">>, t)
                                 EXCEPT !.recommendation = {rec}],
                             <<"Decision: ", rec.status, " - $">>
                             \o FormatMoney(rec.approved_amount), t),
                     k + 1 = Len(resp) >>
             ELSE AloneRounds(c1, resp, k + 1, mx, t)

AloneRun(text, resp, mx, t) ==
    LET looped == AloneRounds(
                      add_log(add_log(Claim(text), <<"Claim submitted for processing">>, t),
                              <<"Agent analysis started">>, t),
                      resp, 0, mx, t)
        c == looped[1]
    IN  IF c.recommendation # {} THEN looped
        ELSE << add_log([c EXCEPT !.recommendation =
                            {ClaimRecommendation("needs_review", 0,
                               <<"Unable to complete automated processing. Manual review required.">>,
                               0,
                               <<"Manual review by claims adjuster", "Verify all claim details">>,
                               t)}],
                        <<"Defaulted to manual review">>, t),
                looped[2] >>

\* C9: concurrent requests on one agent share nothing mutable: no step changes what
\* two requests own, the catalog and the settings never change, and each returned
\* Claim is the one its request produces alone on the same responses.
C9_RequestsIsolated ==
    /\ [][/\ policies' = policies
          /\ agent_max_iterations' = agent_max_iterations
          /\ \A r, q \in DOMAIN pc :
                (r # q /\ Local(r)' # Local(r)) => Local(q)' = Local(q)]_vars
    /\ [](\A r \in DOMAIN pc :
            pc[r] = "done" =>
                <<claim[r], TRUE>> =
                    AloneRun(claim_text[r], responses[r], agent_max_iterations, now))

\* one request has returned a denial parsed in its second round while the other,
\* submitted with another text, is in its second round after a tool ran for it
C9_Witness ==
    /\ DOMAIN pc = {"r1", "r2"}
    /\ pc["r1"] = "done"
    /\ Len(responses["r1"]) = 2
    /\ TheRecommendation("r1").status = "denied"
    /\ pc["r2"] = "await"
    /\ iteration["r2"] = 2
    /\ tool_result["r2"] # {}
    /\ claim_text["r1"] # claim_text["r2"]

DenialVocabulary == << <<"d","e","n","i","e","d">>, <<"d","e","n","y">>, <<"r","e","j","e","c","t">> >>

ApprovalVocabulary == << <<"a","p","p","r","o","v","e","d">>, <<"a","p","p","r","o","v","e">> >>

OccursAnyCI(text, ws) == \E j \in 1..Len(ws) : OccursCI(text, ws[j])

\* C10: the parsed status is denied when denied/deny/reject occurs anywhere in the
\* narrative (case-insensitive), else approved when approved/approve occurs, else
\* needs_review; denial wins when both vocabularies occur.
C10_StatusResolution ==
    \A x \in p_result :
        /\ OccursAnyCI(p_content, DenialVocabulary) => x.args.status = "denied"
        /\ (~OccursAnyCI(p_content, DenialVocabulary)
            /\ OccursAnyCI(p_content, ApprovalVocabulary)) => x.args.status = "approved"
        /\ (~OccursAnyCI(p_content, DenialVocabulary)
            /\ ~OccursAnyCI(p_content, ApprovalVocabulary)) => x.args.status = "needs_review"

\* a parsed narrative holding both vocabularies, resolved to denied
C10_Witness ==
    \E x \in p_result :
        /\ OccursAnyCI(p_content, DenialVocabulary)
        /\ OccursAnyCI(p_content, ApprovalVocabulary)
        /\ x.args.status = "denied"

----------------------------------------------------------------------------
(* C11..C20                                                                *)

\* C11: a recommendation the parser resolves to denied has approved_amount 0,
\* whatever monetary amounts the narrative mentions.
C11_DeniedPaysNothing ==
    \A x \in p_result :
        x.args.status = "denied" => x.args.approved_amount = 0

\* C12: calculate_approved_amount on a claim that is not covered returns
\* approved_amount 0 and coverage_limit_applied false, for all non-negative
\* claim amounts, limits and deductibles.
C12_NotCoveredPaysNothing ==
    \A x \in t_out :
        (t_call.tool = "calculate_approved_amount" /\ ~t_call.is_covered) =>
            /\ ~x.raised
            /\ x.result.approved_amount = 0
            /\ x.result.coverage_limit_applied = FALSE

\* an uncovered claim settled whose amount exceeds both the limit and the deductible
C12_Witness ==
    \E x \in t_out :
        /\ t_call.tool = "calculate_approved_amount"
        /\ ~t_call.is_covered
        /\ t_call.claim_amount > t_call.coverage_limit
        /\ t_call.coverage_limit > t_call.deductible
        /\ x.result.approved_amount = 0

\* C13: for a covered claim with claim_amount <= coverage_limit and
\* deductible <= claim_amount, approved_amount is claim_amount - deductible
\* rounded to two decimals, coverage_limit_applied is false and
\* deductible_applied is the deductible.
C13_CoveredWithinLimit ==
    \A x \in t_out :
        (/\ t_call.tool = "calculate_approved_amount"
         /\ t_call.is_covered
         /\ t_call.claim_amount <= t_call.coverage_limit
         /\ t_call.deductible <= t_call.claim_amount) =>
            /\ ~x.raised
            /\ x.result.approved_amount % 10 = 0
            /\ \/ x.result.approved_amount - (t_call.claim_amount - t_call.deductible) \in -4..4
               \/ /\ (t_call.claim_amount - t_call.deductible) % 10 = 5
                  /\ x.result.approved_amount - (t_call.claim_amount - t_call.deductible)
                         \in {-5, 5}
                  /\ (x.result.approved_amount \div 10) % 2 = 0
            /\ x.result.coverage_limit_applied = FALSE
            /\ x.result.deductible_applied = t_call.deductible

\* a covered claim within the limit whose payout had to be rounded
C13_Witness ==
    \E x \in t_out :
        /\ t_call.tool = "calculate_approved_amount"
        /\ t_call.is_covered
        /\ t_call.claim_amount <= t_call.coverage_limit
        /\ t_call.deductible <= t_call.claim_amount
        /\ t_call.deductible > 0
        /\ x.result.approved_amount # t_call.claim_amount - t_call.deductible

\* C14: for a covered claim with claim_amount > coverage_limit, whatever the
\* deductible, approved_amount is max(0, coverage_limit - deductible) rounded to
\* two decimals, never negative, and coverage_limit_applied is true.
C14_CoveredAboveLimit ==
    \A x \in t_out :
        (/\ t_call.tool = "calculate_approved_amount"
         /\ t_call.is_covered
         /\ t_call.claim_amount > t_call.coverage_limit) =>
            LET due == IF t_call.coverage_limit > t_call.deductible
                       THEN t_call.coverage_limit - t_call.deductible ELSE 0
            IN  /\ ~x.raised
                /\ x.result.approved_amount >= 0
                /\ x.result.approved_amount % 10 = 0
                /\ \/ x.result.approved_amount - due \in -4..4
                   \/ /\ due % 10 = 5
                      /\ x.result.approved_amount - due \in {-5, 5}
                      /\ (x.result.approved_amount \div 10) % 2 = 0
                /\ x.result.coverage_limit_applied = TRUE

\* the second settlement of the end-to-end scenario: 60000 against a limit of
\* 50000 and a deductible of 500 pays 49500
C14_Witness ==
    \E x \in t_out :
        /\ t_call.tool = "calculate_approved_amount"
        /\ t_call.is_covered
        /\ t_call.claim_amount = 60000000
        /\ t_call.coverage_limit = 50000000
        /\ t_call.deductible = 500000
        /\ x.result.approved_amount = 49500000
        /\ x.result.coverage_limit_applied

\* the number of places where word occurs in text, case-insensitively
OccurrencesCI(text, word) ==
    Cardinality({i \in 1..(Len(text) - Len(word) + 1) :
                    \A m \in 1..Len(word) : LowerChar(text[i + m - 1]) = word[m]})

\* the weights of the indicators a call triggers, by the table of triggers
TriggeredWeights(text, amount, age) ==
    << IF age < 30 THEN 25 ELSE 0,
       IF amount > 1000000 THEN 15 ELSE 0,
       IF OccursAnyCI(text, << <<"u","r","g","e","n","t">>, <<"i","m","m","e","d","i","a","t","e","l","y">>, <<"u","r","g","e","n","t","l","y">> >>) THEN 10 ELSE 0,
       IF OccursAnyCI(text, << <<"n","o"," ","w","i","t","n","e","s","s">>, <<"n","o"," ","p","o","l","i","c","e"," ","r","e","p","o","r","t">> >>) THEN 20 ELSE 0,
       IF OccursAnyCI(text, << <<"f","i","n","a","n","c","i","a","l"," ","d","i","f","f","i","c","u","l","t">>, <<"n","e","e","d"," ","m","o","n","e","y">>, <<"c","a","s","h">>, <<"p","a","y","m","e","n","t"," ","t","o","d","a","y">> >>) THEN 20 ELSE 0,
       IF \/ OccurrencesCI(text, <<"c","l","a","i","m">>) > 3
          \/ OccursAnyCI(text, << <<"p","r","e","v","i","o","u","s"," ","c","l","a","i","m">>, <<"o","t","h","e","r"," ","c","l","a","i","m">> >>) THEN 25 ELSE 0,
       IF /\ OccursAnyCI(text, << <<"c","o","u","s","i","n">>, <<"f","r","i","e","n","d">>, <<"f","a","m","i","l","y">> >>)
          /\ OccursAnyCI(text, << <<"r","e","p","a","i","r">>, <<"s","h","o","p">> >>) THEN 15 ELSE 0,
       IF OccursAnyCI(text, << <<"n","o","t"," ","s","u","r","e">>, <<"d","o","n","'","t"," ","k","n","o","w">>, <<"n","o","t"," ","e","x","a","c","t","l","y">> >>) THEN 10 ELSE 0 >>

SumOf8(w) == w[1] + w[2] + w[3] + w[4] + w[5] + w[6] + w[7] + w[8]

\* C15: the reported risk_score is min(100, sum of the weights 25/15/10/20/20/25/
\* 15/10 of the triggered indicators), each counted once; it lies in 0..100 and
\* does not decrease when the call triggers an additional indicator (a further
\* phrase in the text, a newer policy, a higher amount).
C15_FraudScore ==
    \A x \in t_out :
        t_call.tool = "assess_fraud_risk" =>
            LET total == SumOf8(TriggeredWeights(t_call.claim_text, t_call.claim_amount,
                                                 t_call.policy_age_days))
            IN  /\ ~x.raised
                /\ x.result.risk_score = (IF total > 100 THEN 100 ELSE total)
                /\ x.result.risk_score \in 0..100
                /\ \A k \in 1..Len(FraudPhrases) :
                      assess_fraud_risk(t_call.claim_text \o <<" ">> \o FraudPhrases[k],
                                        t_call.claim_amount,
                                        t_call.policy_age_days).risk_score
                          >= x.result.risk_score
                /\ assess_fraud_risk(t_call.claim_text, t_call.claim_amount + 1,
                                     t_call.policy_age_days - 1).risk_score
                       >= x.result.risk_score

\* a call that triggers all eight indicators: the weights add up to 140 and the
\* reported score is 100
C15_Witness ==
    \E x \in t_out :
        /\ t_call.tool = "assess_fraud_risk"
        /\ \A k \in 1..8 : TriggeredWeights(t_call.claim_text, t_call.claim_amount,
                                            t_call.policy_age_days)[k] > 0
        /\ x.result.risk_score = 100
        /\ Len(x.result.indicators) = 8

\* C16: risk_level agrees with the reported risk_score: critical iff score >= 70,
\* high iff 40 <= score < 70, medium iff 20 <= score < 40, low iff score < 20; and
\* requires_investigation is true exactly when risk_level is not low.
C16_FraudLevel ==
    \A x \in t_out :
        t_call.tool = "assess_fraud_risk" =>
            /\ x.result.risk_level \in {"low", "medium", "high", "critical"}
            /\ x.result.risk_level = "critical" <=> x.result.risk_score >= 70
            /\ x.result.risk_level = "high" <=>
                  (x.result.risk_score >= 40 /\ x.result.risk_score < 70)
            /\ x.result.risk_level = "medium" <=>
                  (x.result.risk_score >= 20 /\ x.result.risk_score < 40)
            /\ x.result.risk_level = "low" <=> x.result.risk_score < 20
            /\ x.result.requires_investigation <=> x.result.risk_level # "low"

\* an assessment whose score is capped and critical
C16_Witness ==
    \E x \in t_out :
        /\ t_call.tool = "assess_fraud_risk"
        /\ SumOf8(TriggeredWeights(t_call.claim_text, t_call.claim_amount,
                                   t_call.policy_age_days)) > 100
        /\ x.result.risk_level = "critical"
        /\ x.result.requires_investigation

\* the places of the catalog holding the called policy number
PlacesOf(number) == {i \in 1..Len(policies) : policies[i].policy_number = number}

\* the policy the call is about: the first one of the catalog with that number
CalledPolicy == policies[CHOOSE i \in PlacesOf(t_call.policy_number) :
                             \A j \in PlacesOf(t_call.policy_number) : i <= j]

not_found == <<"n","o","t"," ","f","o","u","n","d">>

\* C17: check_policy_coverage on a policy number that is not in the catalog
\* returns is_valid false, is_covered false and a reason containing "not found",
\* for every claim type and amount, and does not fail.
C17_UnknownPolicy ==
    \A x \in t_out :
        (t_call.tool = "check_policy_coverage" /\ PlacesOf(t_call.policy_number) = {}) =>
            /\ ~x.raised
            /\ x.result.is_valid = FALSE
            /\ x.result.is_covered = FALSE
            /\ OccursCI(x.result.reason, not_found)

\* the lookup missed on a number that differs from a cataloged one by case only
C17_Witness ==
    \E x \in t_out :
        /\ t_call.tool = "check_policy_coverage"
        /\ t_call.policy_number = pol_auto_001_lower
        /\ PlacesOf(POL_AUTO_001) # {}
        /\ x.result.is_valid = FALSE
        /\ x.result.is_covered = FALSE

\* active: status active and effective_date <= now <= expiry_date
ActiveNow(p) == p.status = "active" /\ p.effective_date <= now /\ now <= p.expiry_date

\* C18: a policy is active iff its status is active and effective_date <= now <=
\* expiry_date; check_policy_coverage on a found policy is_valid exactly when the
\* policy is active, and on one that is not active it returns is_valid false and
\* is_covered false whatever coverages it holds and whatever the amount.
C18_InactivePolicy ==
    \A x \in t_out :
        (t_call.tool = "check_policy_coverage" /\ PlacesOf(t_call.policy_number) # {}) =>
            /\ ~x.raised
            /\ x.result.is_valid <=> ActiveNow(CalledPolicy)
            /\ ~ActiveNow(CalledPolicy) =>
                  (x.result.is_valid = FALSE /\ x.result.is_covered = FALSE)

\* a policy of status active that holds the coverage and whose limit is not
\* exceeded, refused because now lies outside its validity window
C18_Witness ==
    \E x \in t_out :
        /\ t_call.tool = "check_policy_coverage"
        /\ PlacesOf(t_call.policy_number) # {}
        /\ CalledPolicy.status = "active"
        /\ now < CalledPolicy.effective_date
        /\ \E k \in 1..Len(CalledPolicy.coverages) :
              /\ CalledPolicy.coverages[k].coverage_type = "auto_collision"
              /\ t_call.claim_amount <= CalledPolicy.coverages[k].coverage_limit
        /\ t_call.claim_type = "auto"
        /\ x.result.is_valid = FALSE
        /\ x.result.is_covered = FALSE

\* the coverage key of a claim type
KeyOf(ty) ==
    CASE ty = "auto" -> "auto_collision"
      [] ty = "home" -> "home_property"
      [] ty = "health" -> "health_emergency"
      [] OTHER -> "auto_collision"

\* the places of the called policy's coverages holding the key
CoveragePlaces(key) ==
    {k \in 1..Len(CalledPolicy.coverages) : CalledPolicy.coverages[k].coverage_type = key}

\* C19: for an active policy the claim type is mapped to a coverage key (auto,
\* home, health to their own key, any other type to auto_collision); when the
\* policy lacks that coverage the result is is_valid true, is_covered false;
\* otherwise is_valid is true, is_covered is true exactly when claim_amount <=
\* coverage_limit, and the coverage's limit and deductible are returned.
C19_ActivePolicyCoverage ==
    \A x \in t_out :
        (/\ t_call.tool = "check_policy_coverage"
         /\ PlacesOf(t_call.policy_number) # {}
         /\ ActiveNow(CalledPolicy)) =>
            LET places == CoveragePlaces(KeyOf(t_call.claim_type))
            IN  /\ ~x.raised
                /\ x.result.is_valid = TRUE
                /\ places = {} => x.result.is_covered = FALSE
                /\ places # {} =>
                      LET cov == CalledPolicy.coverages[
                                     CHOOSE k \in places : \A j \in places : k <= j]
                      IN  /\ x.result.is_covered <=> t_call.claim_amount <= cov.coverage_limit
                          /\ x.result.coverage_limit = cov.coverage_limit
                          /\ x.result.deductible = cov.deductible
                          /\ x.result.coverage_type = KeyOf(t_call.claim_type)

\* a life claim on an active policy resolved through the auto_collision coverage,
\* with an amount one cent above the limit
C19_Witness ==
    \E x \in t_out :
        /\ t_call.tool = "check_policy_coverage"
        /\ PlacesOf(t_call.policy_number) # {}
        /\ ActiveNow(CalledPolicy)
        /\ t_call.claim_type = "life"
        /\ t_call.claim_amount = 5000001
        /\ x.result.is_valid = TRUE
        /\ x.result.is_covered = FALSE
        /\ x.result.coverage_limit = 5000000
        /\ x.result.deductible = 50000

\* the text holds a policy number: POL-, letters, -, digits, in any case
HoldsPolicyNumber(text) ==
    \E i \in 1..Len(text), j \in 1..Len(text), k \in 1..Len(text) :
        /\ i + 4 < j /\ j < k
        /\ \A m \in 1..4 : LowerChar(text[i + m - 1]) = <<"p","o","l","-">>[m]
        /\ \A m \in (i + 4)..(j - 1) : LowerChar(text[m]) \in DOMAIN UpperOf
        /\ text[j] = "-"
        /\ \A m \in (j + 1)..k : IsDigit(text[m])

HoldsDigit(text) == \E i \in 1..Len(text) : IsDigit(text[i])

\* C20: extract_claim_information never fails: for every raw claim text,
\* including a month-name date whose day is not a day of the calendar, it returns
\* a structured result; policy_number is "UNKNOWN" when the text holds no policy
\* number, claim_amount is 1000.0 when it holds no amount, claim_type is auto when
\* nothing tells the type, incident_date is the current time when it holds no date.
C20_ExtractNeverFails ==
    \A x \in t_out :
        t_call.tool = "extract_claim_information" =>
            /\ ~x.raised
            /\ \A y \in x.result :
                  /\ ~HoldsPolicyNumber(t_call.claim_text) => y.policy_number = <<"U","N","K","N","O","W","N">>
                  /\ ~HoldsDigit(t_call.claim_text) =>
                        (y.claim_amount = 100000 /\ y.incident_date.clock = {now})
                  /\ (/\ ~HoldsPolicyNumber(t_call.claim_text)
                      /\ ~OccursAnyCI(t_call.claim_text, health_keywords)
                      /\ ~OccursAnyCI(t_call.claim_text, home_keywords)) =>
                        y.claim_type = "auto"

----------------------------------------------------------------------------
(* C21..C29                                                                *)

\* one of the three date patterns matches somewhere in the text
HoldsMonthNameDate(text) ==
    \E i \in 1..Len(text) : MonthNameDateAt(text, Lower(text), i) # <<>>

HoldsSlashDate(text) == \E i \in 1..Len(text) : SlashDateAt(text, i)

HoldsIsoDate(text) == \E i \in 1..Len(text) : IsoDateAt(text, i)

\* C21: the extracted incident date is the date denoted by the first matching
\* pattern in the order month-name, MM/DD/YYYY, YYYY-MM-DD: a calendar date
\* whenever one of the three patterns matches; the current processing time is
\* used only when none of the three matches.
C21_IncidentDate ==
    \A x \in t_out :
        t_call.tool = "extract_claim_information" =>
            \A y \in x.result :
                /\ y.incident_date.clock # {} =>
                      /\ ~HoldsMonthNameDate(t_call.claim_text)
                      /\ ~HoldsSlashDate(t_call.claim_text)
                      /\ ~HoldsIsoDate(t_call.claim_text)
                /\ y.incident_date.clock = {} =>
                      /\ Len(y.incident_date.calendar) = 3
                      /\ y.incident_date.calendar[1] = 2025

\* the monetary values the explored texts state, in cents: "$5,000" and "$5000"
\* state 5000 dollars, "250.50" states 250.50, "$12,000,000" states twelve
\* million; the other phrases state no amount
StatedAmounts(text) ==
    (IF \/ Contains(text, <<"$","5",",","0","0","0">>)
        \/ Contains(text, <<"$","5","0","0","0">>) THEN {500000} ELSE {})
    \cup (IF Contains(text, <<"2","5","0",".","5","0">>) THEN {25050} ELSE {})
    \cup (IF Contains(text, <<"$","1","2",",","0","0","0",",","0","0","0">>)
          THEN {1200000000} ELSE {})

\* C22: the extracted claim amount is the maximum of the monetary values stated
\* in the text above 100, and 1000.0 when there is none; the digits of a year or
\* of the policy number, and an amount written without thousands separators
\* ($5000), do not yield another amount than the stated one.
C22_ClaimAmount ==
    \A x \in t_out :
        t_call.tool = "extract_claim_information" =>
            \A y \in x.result :
                LET stated == {a \in StatedAmounts(t_call.claim_text) : a > 10000}
                IN  y.claim_amount =
                        (IF stated = {} THEN 100000
                         ELSE CHOOSE m \in stated : \A a \in stated : a <= m)

\* C23: every claim amount extraction returns satisfies the bounds of
\* ClaimInformation, 0 < claim_amount <= 10,000,000: an amount outside them is
\* rejected as a validation failure and not returned.
C23_ClaimAmountBounds ==
    \A x \in t_out :
        t_call.tool = "extract_claim_information" =>
            \A y \in x.result :
                /\ y.claim_amount > 0
                /\ y.claim_amount <= 1000000000
                /\ validate_amount(y.claim_amount) # {}

\* the conclude directives in the conversation of request r
Directives(r) ==
    {k \in 1..Len(chat_history[r]) :
        chat_history[r][k] = Message("user", conclude_directive)}

\* the second-to-last permitted round of request r has ended with a narrative
\* that holds no terminal-decision language
SecondToLastRoundOpen(r) ==
    /\ max_iterations[r] >= 2
    /\ Len(responses[r]) >= max_iterations[r] - 1
    /\ responses[r][max_iterations[r] - 1].kind = "message"
    /\ ~Terminal(responses[r][max_iterations[r] - 1].content)

\* C24: the conclude directive is in the conversation exactly when round
\* maxIterations-1 ended with a narrative without terminal-decision language; no
\* other round appends one, the last permitted round included, so a request's
\* conversation holds at most one directive.
C24_DirectiveOnce ==
    \A r \in DOMAIN pc :
        /\ Cardinality(Directives(r)) <= 1
        /\ Cardinality(Directives(r)) = 1 <=> SecondToLastRoundOpen(r)

\* the monetary tokens the explored narratives hold, in cents: "$1,500" is
\* $-prefixed, "2,000.50 dollars" is dollars-suffixed; no other phrase is monetary
MonetaryTokens(content) ==
    (IF Contains(content, <<"$","1",",","5","0","0">>) THEN {150000} ELSE {})
    \cup (IF Contains(content, <<"2",",","0","0","0",".","5","0"," ","d","o","l","l","a","r","s">>)
          THEN {200050} ELSE {})

\* C25: the parsed approved amount is the maximum over all monetary tokens of the
\* narrative, the $-prefixed and the dollars-suffixed ones counted together, and
\* 0 when the narrative holds none.
C25_MaximumOfAllTokens ==
    \A x \in p_result :
        LET tokens == MonetaryTokens(p_content)
        IN  x.args.approved_amount =
                (IF tokens = {} THEN 0
                 ELSE CHOOSE m \in tokens : \A a \in tokens : a <= m)

\* C26: for every narrative with terminal-decision language, parsing yields a
\* recommendation and never aborts; its confidence is NN/100 when a
\* "confidence: NN%" pattern is present and 0.8 otherwise, and lies in [0,1].
C26_ConfidenceInRange ==
    \A x \in p_result :
        Terminal(p_content) =>
            /\ ~x.raised
            /\ x.args.confidence \in 0..100
            /\ ~OccursCI(p_content, confidence_word) => x.args.confidence = 80

\* the contents of the assistant messages of a conversation, in order
RECURSIVE AssistantContents(_)
AssistantContents(h) ==
    IF h = <<>> THEN <<>>
    ELSE (IF Head(h).role = "assistant" THEN <<Head(h).content>> ELSE <<>>)
         \o AssistantContents(Tail(h))

\* the narratives the collaborator returned to request r so far, in order
NarrativesOf(r) ==
    LET said == {k \in 1..Len(responses[r]) : responses[r][k].kind = "message"}
    IN  [k \in 1..Cardinality(said) |-> responses[r][k].content]

\* C27: the conversation of a request starts with the system instruction followed
\* by the user message carrying the claim text; its assistant messages are the
\* narratives returned so far, in the order of the rounds, so the request of
\* round k holds the narratives of rounds 1..k-1; and every step leaves the
\* conversation it had as a prefix of the new one: nothing is removed or reordered.
C27_ConversationAppendOnly ==
    /\ [](\A r \in DOMAIN pc :
            pc[r] # "idle" =>
                /\ Len(chat_history[r]) >= 2
                /\ chat_history[r][1] = Message("system", _create_system_prompt)
                /\ chat_history[r][2] = Message("user", user_message(claim_text[r]))
                /\ AssistantContents(chat_history[r]) = NarrativesOf(r)
                /\ pc[r] = "await" => Len(NarrativesOf(r)) = iteration[r] - 1)
    /\ [][\A r \in DOMAIN pc : IsPrefix(chat_history[r], chat_history'[r])]_vars

\* the third round is about to be sent with the two distinct narratives of rounds
\* 1 and 2 in the conversation, in that order
C27_Witness ==
    \E r \in DOMAIN pc :
        /\ pc[r] = "await"
        /\ iteration[r] = 3
        /\ Len(AssistantContents(chat_history[r])) = 2
        /\ AssistantContents(chat_history[r])[1] # AssistantContents(chat_history[r])[2]
        /\ AssistantContents(chat_history[r])[1] = responses[r][1].content

====
